---- MODULE Spec2Model ----
(***************************************************************************)
(* GraphX: a graph-accelerator virtual machine.                            *)
(*                                                                         *)
(* The model follows src/src/graphX.c (fetch, decode, execute, run,        *)
(* graphX_reset), src/src/datastructures.c (the ring-buffer frontier) and  *)
(* src/src/graph.c (the CSR graph).                                        *)
(*                                                                         *)
(* Representation choices:                                                 *)
(*  - a 32-bit word (register, memory word, queue slot, float bit pattern) *)
(*    is held as the two's-complement integer of its bits, in              *)
(*    INT32_MIN..INT32_MAX; arithmetic is done on 16-bit halves so that no *)
(*    intermediate value leaves that range;                                *)
(*  - a zero-initialised C array (memory, queue data) is held as the       *)
(*    function of its non-zero slots (ArrGet/ArrSet);                      *)
(*  - a 64-bit instruction word is held as its fields                      *)
(*    [op (63:56), fl (55:48), a1 (47:40), a2 (39:32), lo (31:0)];         *)
(*  - program[PC] is drawn when it is fetched.                             *)
(***************************************************************************)
EXTENDS Integers, Sequences, FiniteSets, TLC

(***************************************************************************)
(* Program constants                                                       *)
(***************************************************************************)
PROGRAM_SIZE == 8192
MEMORY_SIZE == 65536
LANE_SIZE == 4
MAX_QUEUE_SIZE == 1024
QUEUE_MASK == 1023

FLAG_I == 1
FLAG_F == 2

FLAG_ZERO == 1
FLAG_NEG == 2
FLAG_POS == 4

VM_ERROR == -1
VM_HALT == 0
VM_CONTINUE == 1

HALT == 0
BZ == 1
BNZ == 2
BLT == 3
BGE == 4
JMP == 5
NITER == 6
NNEXT == 7
EITER == 8
ENEXT == 9
HASE == 10
DEG == 11
ADD == 12
SUB == 13
MUL == 14
DIV == 15
CMP == 16
MOV == 17
MOVC == 18
LD == 19
ST == 20
FPUSH == 21
FPOP == 22
FEMPTY == 23
FSWAP == 24
FFILL == 25
VADD == 26
VSUB == 27
VMUL == 28
VDIV == 29
VLD == 30
VST == 31
VSET == 32
VSUM == 33
PARALLEL == 34
BARRIER == 35
LOCK == 36
UNLOCK == 37

R_NODE == 0
R_NBR == 1
R_VAL == 2
R_ACC == 3
R_TMP1 == 4
R_TMP2 == 5
R_ZERO == 20
R_CORE == 21
R_COUNT == 22

F_ACC == 0
F_TMP1 == 1
F_ZERO == 17
F_COUNT == 18

VR_COUNT == 16
VF_COUNT == 16

FRONTIER_QUEUE == 0
FRONTIER_PRIORITY_QUEUE == 1
FRONTIER_BUCKET_QUEUE == 2
FRONTIER_SET == 3

(***************************************************************************)
(* 32-bit words                                                            *)
(***************************************************************************)
RECURSIVE Pow2(_)
Pow2(k) == IF k = 0 THEN 1 ELSE 2 * Pow2(k - 1)

INT32_MAX == (Pow2(30) - 1) * 2 + 1
INT32_MIN == -INT32_MAX - 1

Half == Pow2(16)

\* the low and the high 16 bits of a word; Lo in 0..65535, Hi in -32768..32767
Lo16(a) == a % Half
Hi16(a) == a \div Half

\* the word whose high half is h (any integer, taken modulo 2^16) and low half l
Word32(h, l) ==
    LET hh == h % Half
    IN  (IF hh >= 32768 THEN hh - Half ELSE hh) * Half + l

\* a + b on 32-bit words, wrapping
Add32(a, b) ==
    LET lo == Lo16(a) + Lo16(b)
    IN  Word32(Hi16(a) + Hi16(b) + (lo \div Half), lo % Half)

\* bitwise complement
Not32(a) == IF a >= 0 THEN (-a) - 1 ELSE -(a + 1)

\* a - b on 32-bit words, wrapping
Sub32(a, b) == Add32(Add32(a, Not32(b)), 1)

\* x * y modulo 2^16, for x and y in 0..65535
MulLo16(x, y) == ((x % 256) * y + (((x \div 256) * y) % 256) * 256) % Half

\* a * b on 32-bit words, wrapping: the product of the low halves, plus the
\* cross products shifted into the high half
Mul32(a, b) ==
    LET al == Lo16(a)
        ah == Hi16(a) % Half
        bl == Lo16(b)
        bh == Hi16(b) % Half
        t == (al \div 256) * bl
        low == Add32((al % 256) * bl, Word32(t \div 256, (t % 256) * 256))
        cross == (MulLo16(ah, bl) + MulLo16(al, bh)) % Half
    IN  Add32(low, Word32(cross, 0))

\* C's integer division truncates toward zero (b # 0, not INT32_MIN / -1)
Abs(a) == IF a < 0 THEN -a ELSE a
TruncDiv(a, b) ==
    LET q == Abs(a) \div Abs(b)
    IN  IF (a < 0) # (b < 0) THEN -q ELSE q

\* byte k (0 = least significant) of a word
Byte(a, k) == (a \div Pow2(8 * k)) % 256

(***************************************************************************)
(* IEEE-754 single precision, by bit pattern                               *)
(***************************************************************************)
\* the 31 bits below the sign bit
FMag(bits) == IF bits < 0 THEN (bits + INT32_MAX) + 1 ELSE bits
FSign(bits) == IF bits < 0 THEN 1 ELSE 0
FExp(bits) == FMag(bits) \div Pow2(23)
FMant(bits) == FMag(bits) % Pow2(23)
FIsNaN(bits) == FExp(bits) = 255 /\ FMant(bits) # 0
FIsZero(bits) == FMag(bits) = 0

\* (int32_t) f: the values the conversion of f to int32_t can produce.  It
\* truncates toward zero; outside the range of int32_t (and for NaN) the
\* conversion is undefined and the builds differ (x86: INT32_MIN; ARM: saturate
\* or 0).
FloatToInt32(bits) ==
    LET e == FExp(bits) - 127
        sig == Pow2(23) + FMant(bits)
        mag == IF e >= 23 THEN sig * Pow2(e - 23) ELSE sig \div Pow2(23 - e)
    IN  IF FExp(bits) < 127 THEN {0}
        ELSE IF e < 31 THEN {IF FSign(bits) = 1 THEN -mag ELSE mag}
        ELSE IF FSign(bits) = 1 /\ e = 31 /\ FMant(bits) = 0 THEN {INT32_MIN}
        ELSE {INT32_MIN, INT32_MAX, 0}

\* the bit pattern with sign s, exponent field e and mantissa field m
FBits(s, e, m) ==
    LET mag == e * Pow2(23) + m
    IN  IF s = 1 THEN (mag - INT32_MAX) - 1 ELSE mag

FIsFinite(bits) == FExp(bits) # 255
F_NAN_POS == FBits(0, 255, Pow2(22))
F_NAN_NEG == FBits(1, 255, Pow2(22))
FInf(s) == FBits(s, 255, 0)

\* floats as sign-magnitude integers: the order of the values that are not NaN
FOrd(bits) == IF FSign(bits) = 1 THEN -FMag(bits) ELSE FMag(bits)

\* a finite float as [s, m, e], its value (-1)^s * m * 2^e with m odd or 0
RECURSIVE OddPart(_, _)
OddPart(m, e) ==
    IF m = 0 THEN [m |-> 0, e |-> 0]
    ELSE IF m % 2 = 0 THEN OddPart(m \div 2, e + 1)
    ELSE [m |-> m, e |-> e]

FDec(bits) ==
    LET raw == IF FExp(bits) = 0 THEN OddPart(FMant(bits), -149)
               ELSE OddPart(Pow2(23) + FMant(bits), FExp(bits) - 150)
    IN  [s |-> FSign(bits), m |-> raw.m, e |-> raw.e]

\* the position of the highest set bit of m > 0
RECURSIVE TopBit(_)
TopBit(m) == IF m <= 1 THEN 0 ELSE 1 + TopBit(m \div 2)

\* (-1)^s * m * 2^e is a float (normal or zero) without rounding
FFits(m, e) ==
    LET o == OddPart(m, e)
    IN  m = 0 \/ (TopBit(o.m) <= 23 /\ o.e + TopBit(o.m) \in -126..127)

\* its bit pattern
FEnc(s, m, e) ==
    LET o == OddPart(m, e)
        p == TopBit(o.m)
    IN  IF m = 0 THEN FBits(s, 0, 0)
        ELSE FBits(s, o.e + p + 127, (o.m - Pow2(p)) * Pow2(23 - p))

\* the operands of a float operation the model computes: finite, and small
\* enough that the exact result is a float and no intermediate value leaves 32
\* bits; a quotient has to be exact or have a zero divisor
FSmall(bits) ==
    FIsFinite(bits) /\ FDec(bits).m < Pow2(12) /\ FDec(bits).e \in -20..20

FSum(a, b) ==
    LET x == FDec(a)
        y == FDec(b)
        e == IF x.e < y.e THEN x.e ELSE y.e
        xv == (IF x.s = 1 THEN -x.m ELSE x.m) * Pow2(x.e - e)
        yv == (IF y.s = 1 THEN -y.m ELSE y.m) * Pow2(y.e - e)
    IN  [v |-> xv + yv, e |-> e,
         zs |-> IF x.s = y.s THEN x.s ELSE 0]

FExact(op, a, b) ==
    /\ FSmall(a) /\ FSmall(b)
    /\ CASE op = "add" -> IF FDec(a).m = 0 \/ FDec(b).m = 0 THEN TRUE
                          ELSE IF FDec(a).e - FDec(b).e \notin -12..12 THEN FALSE
                          ELSE FFits(Abs(FSum(a, b).v), FSum(a, b).e)
         [] op = "mul" -> TRUE
         [] op = "div" -> IF FDec(b).m = 0 THEN TRUE
                          ELSE FDec(a).m % FDec(b).m = 0

FNeg(bits) == FBits(1 - FSign(bits), FExp(bits), FMant(bits))

\* a + b
FAdd(a, b) ==
    IF FDec(a).m = 0 /\ FDec(b).m # 0 THEN {b}
    ELSE IF FDec(b).m = 0 /\ FDec(a).m # 0 THEN {a}
    ELSE LET r == FSum(a, b)
         IN  IF r.v = 0 THEN {FBits(r.zs, 0, 0)}
             ELSE {FEnc(IF r.v < 0 THEN 1 ELSE 0, Abs(r.v), r.e)}

\* a - b
FSub(a, b) == FAdd(a, FNeg(b))

\* a * b
FMul(a, b) ==
    LET x == FDec(a)
        y == FDec(b)
        s == IF x.s = y.s THEN 0 ELSE 1
    IN  {FEnc(s, x.m * y.m, x.e + y.e)}

\* a / b; 0 / 0 is a NaN whose sign depends on the processor
FDiv(a, b) ==
    LET x == FDec(a)
        y == FDec(b)
        s == IF x.s = y.s THEN 0 ELSE 1
    IN  IF y.m = 0 THEN (IF x.m = 0 THEN {F_NAN_POS, F_NAN_NEG} ELSE {FInf(s)})
        ELSE {FEnc(s, x.m \div y.m, x.e - y.e)}

\* (float) v for an int32_t v: exact up to 24 bits, else rounded to the nearest
\* float, ties to the even mantissa
IntToFloat(v) ==
    IF v = 0 THEN 0
    ELSE IF v = INT32_MIN THEN FBits(1, 158, 0)
    ELSE LET s == IF v < 0 THEN 1 ELSE 0
             m == Abs(v)
             p == TopBit(m)
             sh == p - 23
             q == m \div Pow2(sh)
             r == m % Pow2(sh)
             up == r > Pow2(sh - 1) \/ (r = Pow2(sh - 1) /\ q % 2 = 1)
             q2 == IF up THEN q + 1 ELSE q
         IN  IF p <= 23 THEN FBits(s, p + 127, (m - Pow2(p)) * Pow2(23 - p))
             ELSE IF q2 = Pow2(24) THEN FBits(s, p + 128, 0)
             ELSE FBits(s, p + 127, q2 - Pow2(23))

(***************************************************************************)
(* Zero-initialised arrays                                                 *)
(***************************************************************************)
ZeroArr == [j \in {} |-> 0]
ArrGet(arr, i) == IF i \in DOMAIN arr THEN arr[i] ELSE 0
ArrSet(arr, i, v) ==
    IF v = 0 THEN [j \in DOMAIN arr \ {i} |-> arr[j]]
    ELSE [j \in DOMAIN arr \cup {i} |-> IF j = i THEN v ELSE arr[j]]

\* a C array literal, indexed from 0
Arr0(seq) == [j \in 0..(Len(seq) - 1) |-> seq[j + 1]]

(***************************************************************************)
(* The ring-buffer frontier (datastructures.c)                             *)
(*                                                                         *)
(* A queue is [data, front, back]; in the code `front` is the cursor a     *)
(* push advances and `back` the cursor a pop advances.  A frontier is      *)
(* [type, queue].  Each function returns its return value together with    *)
(* the object as the call leaves it.                                       *)
(***************************************************************************)
\* a & b for a, b >= 0
RECURSIVE BitAnd(_, _)
BitAnd(a, b) ==
    IF a = 0 \/ b = 0 THEN 0
    ELSE 2 * BitAnd(a \div 2, b \div 2) + (IF a % 2 = 1 /\ b % 2 = 1 THEN 1 ELSE 0)

queue_init(queue) ==
    [ret |-> 0, queue |-> [data |-> ZeroArr, front |-> 0, back |-> 0]]

\* queue_push that stores at the cursor without the mask
queue_push_unmasked(queue, node) ==
    IF queue.front - queue.back = MAX_QUEUE_SIZE
    THEN [ret |-> -1, queue |-> queue]
    ELSE [ret |-> 0,
          queue |-> [queue EXCEPT
                       !.data = ArrSet(queue.data, queue.front, node),
                       !.front = queue.front + 1]]

\* queue_push whose full test is off by one
queue_push_late_full(queue, node) ==
    IF queue.front - queue.back = MAX_QUEUE_SIZE + 1
    THEN [ret |-> -1, queue |-> queue]
    ELSE [ret |-> 0,
          queue |-> [queue EXCEPT
                       !.data = ArrSet(queue.data, BitAnd(queue.front, QUEUE_MASK), node),
                       !.front = queue.front + 1]]

queue_push(queue, node) ==
    IF queue.front - queue.back = MAX_QUEUE_SIZE
    THEN [ret |-> -1, queue |-> queue]
    ELSE [ret |-> 0,
          queue |-> [queue EXCEPT
                       !.data = ArrSet(queue.data, BitAnd(queue.front, QUEUE_MASK), node),
                       !.front = queue.front + 1]]

\* queue_pop that clears the caller's location before it looks at the queue
queue_pop_clears_result(queue, result) ==
    IF queue.front = queue.back
    THEN [ret |-> -1, queue |-> queue, result |-> 0]
    ELSE [ret |-> 0,
          queue |-> [queue EXCEPT !.back = queue.back + 1],
          result |-> ArrGet(queue.data, BitAnd(queue.back, QUEUE_MASK))]

\* result is the int32_t the caller's pointer refers to, before the call
queue_pop(queue, result) ==
    IF queue.front = queue.back
    THEN [ret |-> -1, queue |-> queue, result |-> result]
    ELSE [ret |-> 0,
          queue |-> [queue EXCEPT !.back = queue.back + 1],
          result |-> ArrGet(queue.data, BitAnd(queue.back, QUEUE_MASK))]

queue_empty(queue) == IF queue.front = queue.back THEN 1 ELSE 0

frontier_init(frontier, backend_type) ==
    IF backend_type = FRONTIER_QUEUE
    THEN [ret |-> 0,
          frontier |-> [type |-> backend_type, queue |-> queue_init(frontier.queue).queue]]
    ELSE [ret |-> -1, frontier |-> [frontier EXCEPT !.type = backend_type]]

frontier_push(frontier, node) ==
    IF frontier.type = FRONTIER_QUEUE
    THEN LET r == queue_push(frontier.queue, node)
         IN  [ret |-> r.ret, frontier |-> [frontier EXCEPT !.queue = r.queue]]
    ELSE [ret |-> -1, frontier |-> frontier]

frontier_pop(frontier, node) ==
    IF frontier.type = FRONTIER_QUEUE
    THEN LET r == queue_pop(frontier.queue, node)
         IN  [ret |-> r.ret, frontier |-> [frontier EXCEPT !.queue = r.queue],
              node |-> r.result]
    ELSE [ret |-> -1, frontier |-> frontier, node |-> node]

frontier_empty(frontier) ==
    IF frontier.type = FRONTIER_QUEUE THEN queue_empty(frontier.queue) ELSE -1

\* frontier_t f = {0} (main.c)
ZeroFrontier ==
    [type |-> 0, queue |-> [data |-> ZeroArr, front |-> 0, back |-> 0]]

\* the number of stored entries and the entries, oldest first
QSize(queue) == queue.front - queue.back
QContents(queue) ==
    [i \in 1..QSize(queue) |->
        ArrGet(queue.data, BitAnd(queue.back + (i - 1), QUEUE_MASK))]

(***************************************************************************)
(* The CSR graph (graph.h): [n, row_index, col_index, values], the arrays  *)
(* indexed from 0, values holding float bit patterns.                      *)
(***************************************************************************)
Graph(rows, cols, vals) ==
    [n |-> Len(rows) - 1, row_index |-> Arr0(rows), col_index |-> Arr0(cols),
     values |-> Arr0(vals)]

\* a < b as uint32_t
ULess(a, b) ==
    IF (a < 0) = (b < 0) THEN a < b ELSE b < 0

\* what lies in memory outside an array
StrayWords == {0, INT32_MAX}

\* arr[i] as the code reads it: the element, or, outside the array, a stray word
\* or a fault
ReadArr(arr, i) ==
    IF i \in DOMAIN arr THEN {[ok |-> TRUE, v |-> arr[i]]}
    ELSE {[ok |-> TRUE, v |-> s] : s \in StrayWords} \cup {[ok |-> FALSE, v |-> 0]}

\* a + b overflows int
AddOverflows(a, b) ==
    \/ a > 0 /\ b > 0 /\ a > INT32_MAX - b
    \/ a < 0 /\ b < 0 /\ a < INT32_MIN - b

\* what a search that read outside an array, or overflowed, can come to:
\* a fault, or either answer
SearchUndefined ==
    {[ok |-> FALSE, ret |-> 0], [ok |-> TRUE, ret |-> 0], [ok |-> TRUE, ret |-> 1]}

\* graph_has_edge, the while loop with int l, h; left is the number of
\* iterations the loop may still make before it is given up as not returning
\* (ok = FALSE, ret = -2)
RECURSIVE HasEdgeLoop(_, _, _, _, _)
HasEdgeLoop(g, v, l, h, left) ==
    IF ~(l <= h) THEN {[ok |-> TRUE, ret |-> 0]}
    ELSE IF left = 0 THEN {[ok |-> FALSE, ret |-> -2]}
    ELSE IF AddOverflows(l, h) THEN SearchUndefined
    ELSE LET m == TruncDiv(l + h, 2)
         IN  IF m \notin DOMAIN g.col_index THEN SearchUndefined
             ELSE IF g.col_index[m] = v THEN {[ok |-> TRUE, ret |-> 1]}
             ELSE IF ULess(g.col_index[m], v)
                  THEN HasEdgeLoop(g, v, m + 1, h, left - 1)
                  ELSE HasEdgeLoop(g, v, l, m - 1, left - 1)

\* graph_has_edge that takes the row to end one element early
graph_has_edge_short_row(g, u, v) ==
    HasEdgeLoop(g, v, g.row_index[u], Sub32(g.row_index[Add32(u, 1)], 2),
                Cardinality(DOMAIN g.col_index) + 1)

\* graph_has_edge(graph, u, v): the outcomes [ok, ret]; a loop over a slice
\* that shrinks at each iteration makes at most one iteration per element
graph_has_edge(g, u, v) ==
    IF u \notin DOMAIN g.row_index \/ Add32(u, 1) \notin DOMAIN g.row_index
    THEN SearchUndefined
    ELSE LET start == g.row_index[u]
             end == g.row_index[Add32(u, 1)]
         IN  HasEdgeLoop(g, v, start, Sub32(end, 1), Cardinality(DOMAIN g.col_index) + 1)

\* graph_degree(graph, node): the outcomes [ok, ret], ret the low 32 bits
graph_degree(g, nd) ==
    {[ok |-> start.ok /\ end.ok, ret |-> Sub32(end.v, start.v)] :
        start \in ReadArr(g.row_index, nd), end \in ReadArr(g.row_index, Add32(nd, 1))}

(***************************************************************************)
(* The VM state (graphX_vm_t), the objects it refers to (main.c) and the   *)
(* position of run.                                                        *)
(***************************************************************************)
VARIABLES
    PC, ISA, FLAGS,         \* program counter, instruction register, flags
    A0, A1, A2, FA,         \* decoded arguments
    data, flags,            \* run's locals: the word fetch returned, what decode returned
    R, F, VR, VF,           \* register files
    memory,                 \* RAM, by non-zero word
    niter, eiter,           \* iteration cursors
    graph,                  \* the graph_t vm->graph refers to
    fobj,                   \* the two frontier_t objects of main: fobj[0] is f, fobj[1] is n
    frontier, next_frontier,\* which object vm->frontier / vm->next_frontier refer to
    clock,                  \* instructions executed
    debug_hook, exit_hook,  \* whether a hook is registered
    debug_calls,            \* the clock values the debug hook was called at
    exit_calls,             \* the statuses the exit hook was called with
    result,                 \* run's status
    pc,                     \* "run": in run's loop; "done": run returned; "trap": the process faulted
    call, ncalls,           \* a caller of the frontier functions: its last call, how many it made
    ret, node,              \* the value that call returned, the int32_t its pops write to
    fifo,                   \* history: the values that caller pushed to fobj[0] and has not popped
    args                    \* history: the arguments of that caller's last call of a graph function

decoded == <<ISA, A0, A1, A2, FA, flags>>
regs == <<R, F, VR, VF>>
cursors == <<niter, eiter>>
fronts == <<fobj, frontier, next_frontier>>
hooks == <<debug_hook, exit_hook>>
caller == <<call, ncalls, ret, node, fifo, args>>
vars == <<PC, FLAGS, data, decoded, regs, memory, cursors, graph, fronts, clock, hooks,
          debug_calls, exit_calls, result, pc, caller>>

\* the word VM_HALT
HaltWord == [op |-> 0, fl |-> 0, a1 |-> 0, a2 |-> 0, lo |-> 0]

\* graphX_reset's effect on the fields of the VM
ResetFields ==
    /\ PC = 0 /\ FLAGS = 0 /\ ISA = HALT
    /\ A0 = 0 /\ A1 = 0 /\ A2 = 0
    /\ R = [i \in 0..(R_COUNT - 1) |-> 0]
    /\ F = [i \in 0..(F_COUNT - 1) |-> 0]
    /\ VR = [i \in 0..(VR_COUNT - 1) |-> [l \in 0..(LANE_SIZE - 1) |-> 0]]
    /\ VF = [i \in 0..(VF_COUNT - 1) |-> [l \in 0..(LANE_SIZE - 1) |-> 0]]
    /\ niter = [i \in 0..3 |-> 0]
    /\ eiter = 0
    /\ memory = ZeroArr
    /\ clock = 0

\* main: vm = {0}, the graph and the frontiers attached, the exit hook set,
\* graphX_load (graphX_reset, then the graph g read from the file); run entered
InitHooked(g, dh, eh) ==
    /\ ResetFields
    /\ FA = 0
    /\ data = HaltWord
    /\ flags = 0
    /\ graph = g
    /\ fobj = [o \in 0..1 |-> frontier_init(ZeroFrontier, FRONTIER_QUEUE).frontier]
    /\ frontier = 0 /\ next_frontier = 1
    /\ debug_hook = dh /\ exit_hook = eh
    /\ debug_calls = <<>> /\ exit_calls = <<>>
    /\ result = VM_CONTINUE
    /\ pc = "run"
    /\ call = "none" /\ ncalls = 0 /\ ret = 0 /\ node = 0 /\ fifo = <<>> /\ args = <<>>

\* main without --debug: only the exit hook is set
InitVM(g) == InitHooked(g, FALSE, TRUE)

(***************************************************************************)
(* fetch and decode                                                        *)
(***************************************************************************)
\* an instruction word with a register / an immediate as third operand
RWord(op, fl, a1, a2, a3) ==
    [op |-> op, fl |-> fl, a1 |-> a1, a2 |-> a2, lo |-> Word32(a3 * 256, 0)]
IWord(op, fl, a1, a2, imm) ==
    [op |-> op, fl |-> fl, a1 |-> a1, a2 |-> a2, lo |-> imm]

\* data == VM_HALT in run
IsZeroWord(w) == w.op = 0 /\ w.fl = 0 /\ w.a1 = 0 /\ w.a2 = 0 /\ w.lo = 0

Opcodes == HALT..UNLOCK

\* a decode that masks the flags byte to its two defined bits instead of
\* rejecting the reserved values
decode_masks_flags(w) ==
    LET fl == w.fl % 4
        a2 == IF fl = 0 \/ fl = 2 THEN Byte(w.lo, 3)
              ELSE IF fl = 1 THEN w.lo
              ELSE 0
        fa == IF fl = 3 THEN w.lo ELSE 0
    IN  [ISA |-> w.op, A0 |-> w.a1, A1 |-> w.a2, A2 |-> a2, FA |-> fa,
         ret |-> IF w.op \in Opcodes THEN fl ELSE -1]

\* decode: the fields it leaves in the VM and its return value
decode(w) ==
    LET fl == w.fl
        a2 == IF fl = 0 \/ fl = 2 THEN Byte(w.lo, 3)
              ELSE IF fl = 1 THEN w.lo
              ELSE 0
        fa == IF fl = 3 THEN w.lo ELSE 0
    IN  [ISA |-> w.op, A0 |-> w.a1, A1 |-> w.a2, A2 |-> a2, FA |-> fa,
         ret |-> IF fl \notin 0..3 THEN -1
                 ELSE IF w.op \in Opcodes THEN fl
                 ELSE -1]

\* fetch returns word w, not the halt word, and decode accepts it as opcode op
Issue(w, op) ==
    /\ pc = "run"
    /\ PC < PROGRAM_SIZE
    /\ ~IsZeroWord(w)
    /\ decode(w).ret >= 0
    /\ decode(w).ISA = op
    /\ data' = w
    /\ ISA' = decode(w).ISA
    /\ A0' = decode(w).A0
    /\ A1' = decode(w).A1
    /\ A2' = decode(w).A2
    /\ FA' = decode(w).FA
    /\ flags' = decode(w).ret

\* the exit hook of main.c: on an error it steps PC back to the instruction
ExitHookPC(status, p) == IF status = VM_ERROR THEN p - 1 ELSE p

\* a loop body that returns on an Error from execute before it counts the
\* instruction
Retire_error_not_counted(status, p) ==
    /\ result' = status
    /\ debug_calls' = IF debug_hook /\ status # VM_ERROR
                      THEN Append(debug_calls, clock) ELSE debug_calls
    /\ clock' = IF status = VM_ERROR THEN clock ELSE clock + 1
    /\ IF status = VM_CONTINUE
       THEN pc' = "run" /\ PC' = p /\ UNCHANGED exit_calls
       ELSE /\ pc' = "done"
            /\ IF exit_hook
               THEN exit_calls' = Append(exit_calls, status) /\ PC' = ExitHookPC(status, p)
               ELSE UNCHANGED exit_calls /\ PC' = p
    /\ UNCHANGED <<graph, hooks, caller>>

\* the rest of the loop body after execute returned status, with PC left at p:
\* the debug hook, the clock, and on a final status the exit hook and the return
Retire(status, p) ==
    /\ result' = status
    /\ debug_calls' = IF debug_hook THEN Append(debug_calls, clock) ELSE debug_calls
    /\ clock' = clock + 1
    /\ IF status = VM_CONTINUE
       THEN pc' = "run" /\ PC' = p /\ UNCHANGED exit_calls
       ELSE /\ pc' = "done"
            /\ IF exit_hook
               THEN exit_calls' = Append(exit_calls, status) /\ PC' = ExitHookPC(status, p)
               ELSE UNCHANGED exit_calls /\ PC' = p
    /\ UNCHANGED <<graph, hooks, caller>>

\* an access outside an array faulted: the process ends inside execute
Fault ==
    /\ pc' = "trap"
    /\ PC' = PC + 1
    /\ UNCHANGED <<FLAGS, regs, memory, cursors, graph, fronts, clock, hooks,
                   debug_calls, exit_calls, result, caller>>

\* a fetch without the bounds test on PC: it returns the halt word only when
\* it read one
FetchHalt_unbounded(w) ==
    /\ pc = "run"
    /\ PC < PROGRAM_SIZE /\ IsZeroWord(w)
    /\ data' = HaltWord
    /\ result' = VM_HALT
    /\ pc' = "done"
    /\ PC' = PC + 1
    /\ exit_calls' = IF exit_hook THEN Append(exit_calls, VM_HALT) ELSE exit_calls
    /\ UNCHANGED <<FLAGS, decoded, regs, memory, cursors, graph, fronts, clock, hooks,
                   debug_calls, caller>>

\* fetch returns the halt word: PC is past the program, or program[PC] is 0
FetchHalt(w) ==
    /\ pc = "run"
    /\ PC >= PROGRAM_SIZE \/ IsZeroWord(w)
    /\ data' = HaltWord
    /\ result' = VM_HALT
    /\ pc' = "done"
    /\ PC' = IF PC >= PROGRAM_SIZE THEN PC ELSE PC + 1
    /\ exit_calls' = IF exit_hook THEN Append(exit_calls, VM_HALT) ELSE exit_calls
    /\ UNCHANGED <<FLAGS, decoded, regs, memory, cursors, graph, fronts, clock, hooks,
                   debug_calls, caller>>

\* decode rejects the word: run returns VM_ERROR at once
DecodeFail(w) ==
    /\ pc = "run"
    /\ PC < PROGRAM_SIZE
    /\ ~IsZeroWord(w)
    /\ decode(w).ret < 0
    /\ data' = w
    /\ ISA' = decode(w).ISA
    /\ A0' = decode(w).A0
    /\ A1' = decode(w).A1
    /\ A2' = decode(w).A2
    /\ FA' = decode(w).FA
    /\ flags' = decode(w).ret
    /\ PC' = PC + 1
    /\ result' = VM_ERROR
    /\ pc' = "done"
    /\ UNCHANGED <<FLAGS, regs, memory, cursors, graph, fronts, clock, hooks,
                   debug_calls, exit_calls, caller>>

(***************************************************************************)
(* execute, one action per opcode: one pass of run's loop that fetches     *)
(* word w, decodes it and executes it.                                     *)
(***************************************************************************)
IRegs == DOMAIN R
FRegs == DOMAIN F

\* case NITER
\* an NITER that rewinds all four cursors
DoNITER_rewinds_every_slot(w) ==
    /\ Issue(w, NITER)
    /\ LET arg3 == decode(w).A2
       IN  IF arg3 >= 4 \/ arg3 < 0
           THEN /\ Retire(VM_ERROR, PC + 1)
                /\ UNCHANGED <<FLAGS, regs, memory, cursors, fronts>>
           ELSE /\ niter' = [i \in 0..3 |-> 0]
                /\ Retire(VM_CONTINUE, PC + 1)
                /\ UNCHANGED <<FLAGS, regs, memory, eiter, fronts>>

DoNITER(w) ==
    /\ Issue(w, NITER)
    /\ LET arg3 == decode(w).A2
       IN  IF arg3 >= 4 \/ arg3 < 0
           THEN /\ Retire(VM_ERROR, PC + 1)
                /\ UNCHANGED <<FLAGS, regs, memory, cursors, fronts>>
           ELSE /\ niter' = [niter EXCEPT ![arg3] = 0]
                /\ Retire(VM_CONTINUE, PC + 1)
                /\ UNCHANGED <<FLAGS, regs, memory, eiter, fronts>>

\* case NNEXT, past its bounds check (lines 190-198)
NNextStep(arg3) ==
                \E start \in ReadArr(graph.row_index, R[R_NODE]),
                   end \in ReadArr(graph.row_index, Add32(R[R_NODE], 1)) :
                  IF ~start.ok \/ ~end.ok THEN Fault
                  ELSE LET i == Add32(start.v, niter[arg3])
                       IN  IF ULess(i, end.v)
                           THEN \E nbr \in ReadArr(graph.col_index, i),
                                   wt \in ReadArr(graph.values, i) :
                                  IF ~nbr.ok \/ ~wt.ok THEN Fault
                                  ELSE \E val \in FloatToInt32(wt.v) :
                                         /\ FLAGS' = 0
                                         /\ R' = [R EXCEPT ![R_NBR] = nbr.v, ![R_VAL] = val]
                                         /\ niter' = [niter EXCEPT ![arg3] = Add32(@, 1)]
                                         /\ Retire(VM_CONTINUE, PC + 1)
                                         /\ UNCHANGED <<F, VR, VF, memory, eiter, fronts>>
                           ELSE /\ FLAGS' = FLAG_ZERO
                                /\ Retire(VM_CONTINUE, PC + 1)
                                /\ UNCHANGED <<regs, memory, cursors, fronts>>

\* an NNEXT that resets FLAGS before its bounds check, as ENEXT does
DoNNEXT_resets_flags_first(w) ==
    /\ Issue(w, NNEXT)
    /\ LET arg3 == decode(w).A2
       IN  IF arg3 >= 4 \/ arg3 < 0
           THEN /\ FLAGS' = 0
                /\ Retire(VM_ERROR, PC + 1)
                /\ UNCHANGED <<regs, memory, cursors, fronts>>
           ELSE NNextStep(arg3)

DoNNEXT(w) ==
    /\ Issue(w, NNEXT)
    /\ LET arg3 == decode(w).A2
       IN  IF arg3 >= 4 \/ arg3 < 0
           THEN /\ Retire(VM_ERROR, PC + 1)
                /\ UNCHANGED <<FLAGS, regs, memory, cursors, fronts>>
           ELSE NNextStep(arg3)

\* case EITER
DoEITER(w) ==
    /\ Issue(w, EITER)
    /\ eiter' = 0
    /\ R' = [R EXCEPT ![R_NODE] = 0]
    /\ Retire(VM_CONTINUE, PC + 1)
    /\ UNCHANGED <<FLAGS, F, VR, VF, memory, niter, fronts>>

\* case ENEXT: the row-exhausted test (line 210), as [node, eiter] after it
ENextRow(g, rnode, it) ==
    IF ULess(rnode, g.n)
       /\ ~ULess(Add32(g.row_index[rnode], it), g.row_index[rnode + 1])
    THEN [node |-> Add32(rnode, 1), eiter |-> 0]
    ELSE [node |-> rnode, eiter |-> it]

\* case ENEXT: the bounds check (line 216)
ENextDone(g, rnode, it) == ~ULess(Add32(rnode, it), g.n)

DoENEXT(w) ==
    /\ Issue(w, ENEXT)
    /\ LET row == ENextRow(graph, R[R_NODE], eiter)
       IN  IF ENextDone(graph, row.node, row.eiter)
           THEN /\ FLAGS' = FLAG_ZERO
                /\ R' = [R EXCEPT ![R_NODE] = row.node]
                /\ eiter' = row.eiter
                /\ Retire(VM_CONTINUE, PC + 1)
                /\ UNCHANGED <<F, VR, VF, memory, niter, fronts>>
           ELSE \E start \in ReadArr(graph.row_index, row.node) :
                  IF ~start.ok THEN Fault
                  ELSE LET i == Add32(start.v, row.eiter)
                       IN  \E nbr \in ReadArr(graph.col_index, i),
                              wt \in ReadArr(graph.values, i) :
                             IF ~nbr.ok \/ ~wt.ok THEN Fault
                             ELSE \E val \in FloatToInt32(wt.v) :
                                    /\ FLAGS' = 0
                                    /\ R' = [R EXCEPT ![R_NODE] = row.node,
                                                      ![R_NBR] = nbr.v,
                                                      ![R_VAL] = val]
                                    /\ eiter' = Add32(row.eiter, 1)
                                    /\ Retire(VM_CONTINUE, PC + 1)
                                    /\ UNCHANGED <<F, VR, VF, memory, niter, fronts>>

\* case HASE: FLAGS = FLAG_ZERO, cleared again when graph_has_edge returned ret
HaseFlags_inverted(r) == IF r # 0 THEN FLAG_ZERO ELSE 0
HaseFlags(r) == IF r # 0 THEN 0 ELSE FLAG_ZERO

DoHASE(w) ==
    /\ Issue(w, HASE)
    /\ \E r \in graph_has_edge(graph, R[R_NODE], R[R_NBR]) :
         IF ~r.ok THEN Fault
         ELSE /\ FLAGS' = HaseFlags(r.ret)
              /\ Retire(VM_CONTINUE, PC + 1)
              /\ UNCHANGED <<regs, memory, cursors, fronts>>

\* case DEG
DoDEG(w) ==
    /\ Issue(w, DEG)
    /\ decode(w).A0 \in IRegs
    /\ \E r \in graph_degree(graph, R[decode(w).A0]) :
         IF ~r.ok THEN Fault
         ELSE /\ R' = [R EXCEPT ![R_VAL] = r.ret]
              /\ Retire(VM_CONTINUE, PC + 1)
              /\ UNCHANGED <<FLAGS, F, VR, VF, memory, cursors, fronts>>

\* case MOV
DoMOV(w) ==
    /\ Issue(w, MOV)
    /\ LET d == decode(w)
           fl == d.ret
       IN  IF fl \in {1, 3}
           THEN IF fl = 3
                THEN /\ d.A0 \in FRegs
                     /\ F' = [F EXCEPT ![d.A0] = d.FA]
                     /\ UNCHANGED R
                ELSE /\ d.A0 \in IRegs
                     /\ R' = [R EXCEPT ![d.A0] = d.A2]
                     /\ UNCHANGED F
           ELSE IF fl = 2
                THEN /\ d.A0 \in FRegs /\ d.A1 \in FRegs
                     /\ F' = [F EXCEPT ![d.A0] = F[d.A1]]
                     /\ UNCHANGED R
                ELSE /\ d.A0 \in IRegs /\ d.A1 \in IRegs
                     /\ R' = [R EXCEPT ![d.A0] = R[d.A1]]
                     /\ UNCHANGED F
    /\ Retire(VM_CONTINUE, PC + 1)
    /\ UNCHANGED <<FLAGS, VR, VF, memory, cursors, fronts>>

\* case MOVC
DoMOVC(w) ==
    /\ Issue(w, MOVC)
    /\ LET d == decode(w)
       IN  IF d.ret = FLAG_F
           THEN /\ d.A0 \in FRegs /\ d.A1 \in IRegs
                /\ F' = [F EXCEPT ![d.A0] = IntToFloat(R[d.A1])]
                /\ UNCHANGED R
           ELSE /\ d.A0 \in IRegs /\ d.A1 \in FRegs
                /\ \E v \in FloatToInt32(F[d.A1]) : R' = [R EXCEPT ![d.A0] = v]
                /\ UNCHANGED F
    /\ Retire(VM_CONTINUE, PC + 1)
    /\ UNCHANGED <<FLAGS, VR, VF, memory, cursors, fronts>>

\* FLAGS |= bit, FLAGS &= ~bit
SetFlag(fl, bit) == fl + bit - BitAnd(fl, bit)
ClearFlag(fl, bit) == fl - BitAnd(fl, bit)

\* case FPUSH
\* an FPUSH that pushes onto the frontier being consumed
DoFPUSH_onto_current(w) ==
    /\ Issue(w, FPUSH)
    /\ decode(w).A0 \in IRegs
    /\ fobj' = [fobj EXCEPT ![frontier] =
                   frontier_push(fobj[frontier], R[decode(w).A0]).frontier]
    /\ Retire(VM_CONTINUE, PC + 1)
    /\ UNCHANGED <<FLAGS, regs, memory, cursors, frontier, next_frontier>>

DoFPUSH(w) ==
    /\ Issue(w, FPUSH)
    /\ decode(w).A0 \in IRegs
    /\ fobj' = [fobj EXCEPT ![next_frontier] =
                   frontier_push(fobj[next_frontier], R[decode(w).A0]).frontier]
    /\ Retire(VM_CONTINUE, PC + 1)
    /\ UNCHANGED <<FLAGS, regs, memory, cursors, frontier, next_frontier>>

\* case FPOP
DoFPOP(w) ==
    /\ Issue(w, FPOP)
    /\ decode(w).A0 \in IRegs
    /\ LET arg1 == decode(w).A0
           r == frontier_pop(fobj[frontier], R[arg1])
       IN  /\ fobj' = [fobj EXCEPT ![frontier] = r.frontier]
           /\ R' = [R EXCEPT ![arg1] = r.node]
    /\ Retire(VM_CONTINUE, PC + 1)
    /\ UNCHANGED <<FLAGS, F, VR, VF, memory, cursors, frontier, next_frontier>>

\* case FEMPTY
DoFEMPTY(w) ==
    /\ Issue(w, FEMPTY)
    /\ FLAGS' = IF frontier_empty(fobj[frontier]) # 0
                THEN SetFlag(FLAGS, FLAG_ZERO)
                ELSE ClearFlag(FLAGS, FLAG_ZERO)
    /\ Retire(VM_CONTINUE, PC + 1)
    /\ UNCHANGED <<regs, memory, cursors, fronts>>

\* an FSWAP without the temporary: both references end on one frontier
DoFSWAP_without_tmp(w) ==
    /\ Issue(w, FSWAP)
    /\ frontier' = next_frontier
    /\ next_frontier' = next_frontier
    /\ Retire(VM_CONTINUE, PC + 1)
    /\ UNCHANGED <<FLAGS, regs, memory, cursors, fobj>>

\* case FSWAP
DoFSWAP(w) ==
    /\ Issue(w, FSWAP)
    /\ frontier' = next_frontier
    /\ next_frontier' = frontier
    /\ Retire(VM_CONTINUE, PC + 1)
    /\ UNCHANGED <<FLAGS, regs, memory, cursors, fobj>>

\* case FFILL: the loop from node on
RECURSIVE FillFrom(_, _, _)
FillFrom(fr, nd, n) ==
    IF nd < n THEN FillFrom(frontier_push(fr, nd).frontier, nd + 1, n) ELSE fr

DoFFILL(w) ==
    /\ Issue(w, FFILL)
    /\ fobj' = [fobj EXCEPT ![frontier] = FillFrom(fobj[frontier], 0, graph.n)]
    /\ Retire(VM_CONTINUE, PC + 1)
    /\ UNCHANGED <<FLAGS, regs, memory, cursors, frontier, next_frontier>>

\* a bounds check that lets the target PROGRAM_SIZE through
TargetInRange_off_by_one(arg3) == ~(arg3 > PROGRAM_SIZE \/ arg3 < 0)

\* the bounds check of a branch target (lines 143, 151, 159, 167, 175)
TargetInRange(arg3) == ~(arg3 >= PROGRAM_SIZE \/ arg3 < 0)

\* the branch conditions
BZTaken(fl) == BitAnd(fl, FLAG_ZERO) # 0
BNZTaken(fl) == ~(BitAnd(fl, FLAG_ZERO) # 0)
BLTTaken(fl) == BitAnd(fl, FLAG_NEG) # 0
\* a BGE that forgets the zero flag
BGETaken_pos_only(fl) == BitAnd(fl, FLAG_POS) # 0
BGETaken(fl) == BitAnd(fl, FLAG_POS) # 0 \/ BitAnd(fl, FLAG_ZERO) # 0

\* a branch instruction of opcode op that branches when taken
Branch(w, op, taken) ==
    /\ Issue(w, op)
    /\ LET arg3 == decode(w).A2
       IN  IF ~TargetInRange(arg3) THEN Retire(VM_ERROR, PC + 1)
           ELSE Retire(VM_CONTINUE, IF taken THEN arg3 ELSE PC + 1)
    /\ UNCHANGED <<FLAGS, regs, memory, cursors, fronts>>

DoBZ(w) == Branch(w, BZ, BZTaken(FLAGS))
DoBNZ(w) == Branch(w, BNZ, BNZTaken(FLAGS))
DoBLT(w) == Branch(w, BLT, BLTTaken(FLAGS))
DoBGE(w) == Branch(w, BGE, BGETaken(FLAGS))
DoJMP(w) == Branch(w, JMP, TRUE)

\* case HALT, for a word that is not the halt word 0
DoHALT(w) ==
    /\ Issue(w, HALT)
    /\ Retire(VM_HALT, PC + 1)
    /\ UNCHANGED <<FLAGS, regs, memory, cursors, fronts>>

\* concurrency opcodes that fall into a neighbouring case and reset FLAGS
DoSync_resets_flags(w) ==
    /\ \E op \in {PARALLEL, BARRIER, LOCK, UNLOCK} : Issue(w, op)
    /\ FLAGS' = 0
    /\ Retire(VM_CONTINUE, PC + 1)
    /\ UNCHANGED <<regs, memory, cursors, fronts>>

\* cases PARALLEL, BARRIER, LOCK, UNLOCK
DoSync(w) ==
    /\ \E op \in {PARALLEL, BARRIER, LOCK, UNLOCK} : Issue(w, op)
    /\ Retire(VM_CONTINUE, PC + 1)
    /\ UNCHANGED <<FLAGS, regs, memory, cursors, fronts>>

\* a comparison that sets no flag for a negative difference
SignFlag_negative_unset(comp) == IF comp = 0 THEN FLAG_ZERO ELSE IF comp < 0 THEN 0 ELSE FLAG_POS

\* the flag a comparison sets from its difference
SignFlag(comp) == IF comp = 0 THEN FLAG_ZERO ELSE IF comp < 0 THEN FLAG_NEG ELSE FLAG_POS

\* a - b overflows int32_t
SubOverflows(a, b) ==
    \/ a >= 0 /\ b < 0 /\ a > INT32_MAX + b
    \/ a < 0 /\ b > 0 /\ a < INT32_MIN + b

\* case CMP, integers: the flags comp = a - b gives; when the subtraction
\* overflows, the wrapped difference or the order of a and b
IntCmpFlags(a, b) ==
    IF SubOverflows(a, b)
    THEN {SignFlag(Sub32(a, b)), IF a < b THEN FLAG_NEG ELSE FLAG_POS}
    ELSE {SignFlag(a - b)}

\* case CMP, floats: the flags compf = a - b gives; a NaN difference is
\* neither equal to nor below 0
FloatCmpFlags(a, b) ==
    IF FIsNaN(a) \/ FIsNaN(b) THEN FLAG_POS
    ELSE IF ~FIsFinite(a) /\ ~FIsFinite(b) /\ FSign(a) = FSign(b) THEN FLAG_POS
    ELSE IF FOrd(a) = FOrd(b) THEN FLAG_ZERO
    ELSE IF FOrd(a) < FOrd(b) THEN FLAG_NEG
    ELSE FLAG_POS

DoCMP(w) ==
    /\ Issue(w, CMP)
    /\ LET d == decode(w)
       IN  IF d.ret = FLAG_F
           THEN /\ d.A0 \in FRegs /\ d.A1 \in FRegs
                /\ FLAGS' = FloatCmpFlags(F[d.A0], F[d.A1])
           ELSE /\ d.A0 \in IRegs /\ d.A1 \in IRegs
                /\ FLAGS' \in IntCmpFlags(R[d.A0], R[d.A1])
    /\ Retire(VM_CONTINUE, PC + 1)
    /\ UNCHANGED <<regs, memory, cursors, fronts>>

\* the integer results of the arithmetic opcodes; "fault" is the processor's
\* trap on a division it cannot do
IntArith(op, a, b) ==
    CASE op = ADD -> {[ok |-> TRUE, v |-> Add32(a, b)]}
      [] op = SUB -> {[ok |-> TRUE, v |-> Sub32(a, b)]}
      [] op = MUL -> {[ok |-> TRUE, v |-> Mul32(a, b)]}
      [] op = DIV ->
           IF b = 0 THEN {[ok |-> FALSE, v |-> 0], [ok |-> TRUE, v |-> 0]}
           ELSE IF a = INT32_MIN /\ b = -1
                THEN {[ok |-> FALSE, v |-> 0], [ok |-> TRUE, v |-> INT32_MIN]}
                ELSE {[ok |-> TRUE, v |-> TruncDiv(a, b)]}

FloatOpName(op) ==
    CASE op = ADD -> "add" [] op = SUB -> "add" [] op = MUL -> "mul" [] op = DIV -> "div"

FloatArith(op, a, b) ==
    CASE op = ADD -> FAdd(a, b)
      [] op = SUB -> FSub(a, b)
      [] op = MUL -> FMul(a, b)
      [] op = DIV -> FDiv(a, b)

\* the register fields an arithmetic instruction indexes R or F with (lines
\* 239-302): arg1 and arg2 in every form, arg3 in the register forms
ArithRegsInFile(d) ==
    LET file == IF BitAnd(d.ret, FLAG_F) # 0 THEN FRegs ELSE IRegs
    IN  /\ d.A0 \in file /\ d.A1 \in file
        /\ BitAnd(d.ret, FLAG_I) = 0 => d.A2 \in file

\* cases ADD, SUB, MUL, DIV with a register field past the end of its file:
\* execute indexes vm->R / vm->F with it untested.  The access faults, or goes
\* to what lies at that offset of the VM: a source reads a stray word, a
\* destination R[R_COUNT + i] is the word of F[i], any other destination is
\* outside the register files
ArithOutside(d, op) ==
    \/ Fault
    \/ /\ Retire(VM_CONTINUE, PC + 1)
       /\ IF BitAnd(d.ret, FLAG_F) # 0
          THEN /\ IF d.A0 \in FRegs
                  THEN \E v \in StrayWords : F' = [F EXCEPT ![d.A0] = v]
                  ELSE F' = F
               /\ UNCHANGED <<FLAGS, R, VR, VF, memory, cursors, fronts>>
          ELSE /\ IF d.A0 \in IRegs
                  THEN /\ \E v \in StrayWords : R' = [R EXCEPT ![d.A0] = v]
                       /\ F' = F
                  ELSE IF d.A0 - R_COUNT \in FRegs
                  THEN /\ \E v \in StrayWords : F' = [F EXCEPT ![d.A0 - R_COUNT] = v]
                       /\ R' = R
                  ELSE UNCHANGED <<R, F>>
               /\ UNCHANGED <<FLAGS, VR, VF, memory, cursors, fronts>>

\* cases ADD, SUB, MUL, DIV
Arith(w, op) ==
    /\ Issue(w, op)
    /\ LET d == decode(w)
           fl == d.ret
       IN  IF ~ArithRegsInFile(d) THEN ArithOutside(d, op)
           ELSE IF BitAnd(fl, FLAG_F) # 0
           THEN /\ d.A0 \in FRegs /\ d.A1 \in FRegs
                /\ BitAnd(fl, FLAG_I) = 0 => d.A2 \in FRegs
                /\ LET b == IF BitAnd(fl, FLAG_I) # 0 THEN d.FA ELSE F[d.A2]
                   IN  /\ FExact(FloatOpName(op), F[d.A1], b)
                       /\ \E v \in FloatArith(op, F[d.A1], b) :
                            F' = [F EXCEPT ![d.A0] = v]
                /\ Retire(VM_CONTINUE, PC + 1)
                /\ UNCHANGED <<FLAGS, R, VR, VF, memory, cursors, fronts>>
           ELSE /\ d.A0 \in IRegs /\ d.A1 \in IRegs
                /\ BitAnd(fl, FLAG_I) = 0 => d.A2 \in IRegs
                /\ LET b == IF BitAnd(fl, FLAG_I) # 0 THEN d.A2 ELSE R[d.A2]
                   IN  \E r \in IntArith(op, R[d.A1], b) :
                         IF ~r.ok THEN Fault
                         ELSE /\ R' = [R EXCEPT ![d.A0] = r.v]
                              /\ Retire(VM_CONTINUE, PC + 1)
                              /\ UNCHANGED <<FLAGS, F, VR, VF, memory, cursors, fronts>>

DoADD(w) == Arith(w, ADD)
DoSUB(w) == Arith(w, SUB)
DoMUL(w) == Arith(w, MUL)
DoDIV(w) == Arith(w, DIV)

\* the bounds check of a memory address (lines 346, 355, 368, 377)
AddrInRange(a) == ~(a >= MEMORY_SIZE \/ a < 0)

\* the address of a LD or ST
LdStAddr(d) == IF BitAnd(d.ret, FLAG_I) # 0 THEN d.A2 ELSE R[d.A1]

\* case LD
DoLD(w) ==
    /\ Issue(w, LD)
    /\ LET d == decode(w)
           addr == LdStAddr(d)
       IN  /\ BitAnd(d.ret, FLAG_I) = 0 => d.A1 \in IRegs
           /\ IF ~AddrInRange(addr)
              THEN /\ Retire(VM_ERROR, PC + 1)
                   /\ UNCHANGED <<R, F>>
              ELSE /\ IF BitAnd(d.ret, FLAG_F) # 0
                      THEN /\ d.A0 \in FRegs
                           /\ F' = [F EXCEPT ![d.A0] = ArrGet(memory, addr)]
                           /\ UNCHANGED R
                      ELSE /\ d.A0 \in IRegs
                           /\ R' = [R EXCEPT ![d.A0] = ArrGet(memory, addr)]
                           /\ UNCHANGED F
                   /\ Retire(VM_CONTINUE, PC + 1)
    /\ UNCHANGED <<FLAGS, VR, VF, memory, cursors, fronts>>

\* case ST
DoST(w) ==
    /\ Issue(w, ST)
    /\ LET d == decode(w)
           addr == LdStAddr(d)
       IN  /\ BitAnd(d.ret, FLAG_I) = 0 => d.A1 \in IRegs
           /\ IF ~AddrInRange(addr)
              THEN /\ Retire(VM_ERROR, PC + 1)
                   /\ UNCHANGED memory
              ELSE /\ IF BitAnd(d.ret, FLAG_F) # 0
                      THEN /\ d.A0 \in FRegs
                           /\ memory' = ArrSet(memory, addr, F[d.A0])
                      ELSE /\ d.A0 \in IRegs
                           /\ memory' = ArrSet(memory, addr, R[d.A0])
                   /\ Retire(VM_CONTINUE, PC + 1)
    /\ UNCHANGED <<FLAGS, regs, cursors, fronts>>

VRegs == 0..(VR_COUNT - 1)

\* memory[base .. base + LANE_SIZE - 1], as the lanes of a vector register
LoadLanes(mem, base) == [l \in 0..(LANE_SIZE - 1) |-> ArrGet(mem, base + l)]

\* mem after the lanes were copied to memory[base .. base + LANE_SIZE - 1]
RECURSIVE StoreLanes(_, _, _, _)
StoreLanes(mem, base, lanes, n) ==
    IF n = 0 THEN mem
    ELSE ArrSet(StoreLanes(mem, base, lanes, n - 1), base + n - 1, lanes[n - 1])

\* the bounds check of VLD and VST (lines 465, 474, 487, 496); base + LANE_SIZE
\* is an int addition, and overflows for a base within LANE_SIZE of INT32_MAX
LaneSumOverflows(base) == base > INT32_MAX - LANE_SIZE
LanesInRange(base) == ~(base + LANE_SIZE >= MEMORY_SIZE \/ base < 0)

\* the status of a VLD or VST whose base makes base + LANE_SIZE overflow: the
\* sum wraps below zero and the copy runs far outside memory, or the build
\* folded the test into base >= MEMORY_SIZE - LANE_SIZE and returns VM_ERROR
LaneOverflow ==
    \/ Fault
    \/ Retire(VM_ERROR, PC + 1) /\ UNCHANGED <<FLAGS, regs, memory, cursors, fronts>>

\* case VLD
DoVLD(w) ==
    /\ Issue(w, VLD)
    /\ LET d == decode(w)
           base == LdStAddr(d)
       IN  /\ BitAnd(d.ret, FLAG_I) = 0 => d.A1 \in IRegs
           /\ d.A0 \in VRegs
           /\ IF LaneSumOverflows(base) THEN LaneOverflow
              ELSE /\ IF ~LanesInRange(base)
                      THEN /\ Retire(VM_ERROR, PC + 1)
                           /\ UNCHANGED <<VR, VF>>
                      ELSE /\ IF BitAnd(d.ret, FLAG_F) # 0
                              THEN /\ VF' = [VF EXCEPT ![d.A0] = LoadLanes(memory, base)]
                                   /\ UNCHANGED VR
                              ELSE /\ VR' = [VR EXCEPT ![d.A0] = LoadLanes(memory, base)]
                                   /\ UNCHANGED VF
                           /\ Retire(VM_CONTINUE, PC + 1)
                   /\ UNCHANGED <<FLAGS, R, F, memory, cursors, fronts>>

\* case VST
DoVST(w) ==
    /\ Issue(w, VST)
    /\ LET d == decode(w)
           base == LdStAddr(d)
       IN  /\ BitAnd(d.ret, FLAG_I) = 0 => d.A1 \in IRegs
           /\ d.A0 \in VRegs
           /\ IF LaneSumOverflows(base) THEN LaneOverflow
              ELSE /\ IF ~LanesInRange(base)
                      THEN /\ Retire(VM_ERROR, PC + 1)
                           /\ UNCHANGED memory
                      ELSE /\ memory' = StoreLanes(memory, base,
                                                   IF BitAnd(d.ret, FLAG_F) # 0
                                                   THEN VF[d.A0] ELSE VR[d.A0],
                                                   LANE_SIZE)
                           /\ Retire(VM_CONTINUE, PC + 1)
                   /\ UNCHANGED <<FLAGS, regs, cursors, fronts>>

\* case VSET
DoVSET(w) ==
    /\ Issue(w, VSET)
    /\ LET d == decode(w)
           int == BitAnd(d.ret, FLAG_F) = 0
           v == IF BitAnd(d.ret, FLAG_I) # 0
                THEN (IF int THEN d.A2 ELSE d.FA)
                ELSE (IF int THEN R[d.A1] ELSE F[d.A1])
       IN  /\ d.A0 \in VRegs
           /\ BitAnd(d.ret, FLAG_I) = 0 => d.A1 \in (IF int THEN IRegs ELSE FRegs)
           /\ IF int
              THEN VR' = [VR EXCEPT ![d.A0] = [l \in 0..(LANE_SIZE - 1) |-> v]] /\ UNCHANGED VF
              ELSE VF' = [VF EXCEPT ![d.A0] = [l \in 0..(LANE_SIZE - 1) |-> v]] /\ UNCHANGED VR
    /\ Retire(VM_CONTINUE, PC + 1)
    /\ UNCHANGED <<FLAGS, R, F, memory, cursors, fronts>>

\* acc after the first n lanes were added to it, one += at a time: R[arg1] is
\* int32_t and the lanes are uint32_t, so each sum is taken modulo 2^32
RECURSIVE SumLanes(_, _, _)
SumLanes(acc, lanes, n) ==
    IF n = 0 THEN acc ELSE Add32(SumLanes(acc, lanes, n - 1), lanes[n - 1])

\* the same for floats; the sums the float model computes exactly
RECURSIVE FSumLanes(_, _, _)
FSumLanes(acc, lanes, n) ==
    IF n = 0 THEN {acc}
    ELSE UNION {FAdd(a, lanes[n - 1]) : a \in FSumLanes(acc, lanes, n - 1)}
RECURSIVE FSumLanesExact(_, _, _)
FSumLanesExact(acc, lanes, n) ==
    IF n = 0 THEN TRUE
    ELSE /\ FSumLanesExact(acc, lanes, n - 1)
         /\ \A a \in FSumLanes(acc, lanes, n - 1) : FExact("add", a, lanes[n - 1])

\* a VSUM that assigns the sum of the lanes to its destination
DoVSUM_replaces(w) ==
    /\ Issue(w, VSUM)
    /\ LET d == decode(w)
       IN  /\ d.A1 \in VRegs
           /\ IF BitAnd(d.ret, FLAG_F) # 0
              THEN /\ d.A0 \in FRegs
                   /\ FSumLanesExact(F[d.A0], VF[d.A1], LANE_SIZE)
                   /\ \E v \in FSumLanes(F[d.A0], VF[d.A1], LANE_SIZE) :
                        F' = [F EXCEPT ![d.A0] = v]
                   /\ UNCHANGED R
              ELSE /\ d.A0 \in IRegs
                   /\ R' = [R EXCEPT ![d.A0] = SumLanes(0, VR[d.A1], LANE_SIZE)]
                   /\ UNCHANGED F
    /\ Retire(VM_CONTINUE, PC + 1)
    /\ UNCHANGED <<FLAGS, VR, VF, memory, cursors, fronts>>

\* case VSUM
DoVSUM(w) ==
    /\ Issue(w, VSUM)
    /\ LET d == decode(w)
       IN  /\ d.A1 \in VRegs
           /\ IF BitAnd(d.ret, FLAG_F) # 0
              THEN /\ d.A0 \in FRegs
                   /\ FSumLanesExact(F[d.A0], VF[d.A1], LANE_SIZE)
                   /\ \E v \in FSumLanes(F[d.A0], VF[d.A1], LANE_SIZE) :
                        F' = [F EXCEPT ![d.A0] = v]
                   /\ UNCHANGED R
              ELSE /\ d.A0 \in IRegs
                   /\ R' = [R EXCEPT ![d.A0] = SumLanes(R[d.A0], VR[d.A1], LANE_SIZE)]
                   /\ UNCHANGED F
    /\ Retire(VM_CONTINUE, PC + 1)
    /\ UNCHANGED <<FLAGS, VR, VF, memory, cursors, fronts>>

(***************************************************************************)
(* Graph iteration: programs of EITER, ENEXT, NITER and NNEXT              *)
(***************************************************************************)
IterSteps == 6

\* float constants, by bit pattern
F_1_0 == FBits(0, 127, 0)
F_2_0 == FBits(0, 128, 0)
F_2_5 == FBits(0, 128, Pow2(21))
F_7_0 == FBits(0, 129, 3 * Pow2(21))

\* two nodes, edges 0->0, 0->1, 1->0
GraphA == Graph(<<0, 2, 3>>, <<0, 1, 0>>, <<F_1_0, F_2_0, F_7_0>>)
\* two nodes, edges 0->1, 1->0, 1->1
GraphB == Graph(<<0, 1, 3>>, <<1, 0, 1>>, <<F_7_0, F_1_0, F_2_0>>)
\* two nodes, edges 0->1 of weight 2.5 and 1->0 whose weight word is the integer 7
GraphC == Graph(<<0, 1, 2>>, <<1, 0>>, <<F_2_5, 7>>)

SlotWords(op) ==
    {RWord(op, 0, 0, 0, k) : k \in {0, 3, 4}} \cup {IWord(op, 1, 0, 0, k) : k \in {1, -1}}

IterNITER == clock < IterSteps /\ \E w \in SlotWords(NITER) : DoNITER(w)
IterNNEXT == clock < IterSteps /\ \E w \in SlotWords(NNEXT) : DoNNEXT(w)
IterEITER == clock < IterSteps /\ DoEITER(RWord(EITER, 0, 0, 0, 0))
IterENEXT == clock < IterSteps /\ DoENEXT(RWord(ENEXT, 0, 0, 0, 0))

NextIter == IterNITER \/ IterNNEXT \/ IterEITER \/ IterENEXT

InitSweep == \E g \in {GraphA, GraphB} : InitVM(g)
SpecSweep == InitSweep /\ [][NextIter]_vars

InitIter == \E g \in {GraphA, GraphC} : InitVM(g)
SpecIter == InitIter /\ [][NextIter]_vars

(***************************************************************************)
(* Frontier programs: MOV, FPUSH, FPOP, FEMPTY, FSWAP, FFILL               *)
(***************************************************************************)
FrontSteps == 5

FrontMOV == clock < FrontSteps /\ \E v \in {5, 6} : DoMOV(IWord(MOV, 1, R_TMP1, 0, v))
FrontFPUSH == clock < FrontSteps /\ DoFPUSH(RWord(FPUSH, 0, R_TMP1, 0, 0))
FrontFPOP == clock < FrontSteps /\ DoFPOP(RWord(FPOP, 0, R_ACC, 0, 0))
FrontFEMPTY == clock < FrontSteps /\ DoFEMPTY(RWord(FEMPTY, 0, 0, 0, 0))
FrontFSWAP == clock < FrontSteps /\ DoFSWAP(RWord(FSWAP, 0, 0, 0, 0))
FrontFFILL == clock < FrontSteps /\ DoFFILL(RWord(FFILL, 0, 0, 0, 0))

NextFront ==
    FrontMOV \/ FrontFPUSH \/ FrontFPOP \/ FrontFEMPTY \/ FrontFSWAP \/ FrontFFILL

InitFront == InitVM(GraphA)
SpecFront == InitFront /\ [][NextFront]_vars

(***************************************************************************)
(* Branching: programs of MOV, CMP, FEMPTY and the five branch opcodes,    *)
(* with the exit hook set or not.                                          *)
(***************************************************************************)
BranchSteps == 4

\* branch words: immediate targets at and around the ends of the program, a
\* register-form word, and a float-immediate word (whose A2 is 0)
BranchTargets == {100, PROGRAM_SIZE - 1, PROGRAM_SIZE, -1}
BranchWords(op) ==
    {IWord(op, FLAG_I, 0, 0, t) : t \in BranchTargets}
        \cup {RWord(op, 0, 0, 0, 7), IWord(op, FLAG_I + FLAG_F, 0, 0, F_1_0)}

BranchMOV == clock < BranchSteps /\ \E v \in {-1, 1} : DoMOV(IWord(MOV, FLAG_I, R_TMP1, 0, v))
BranchCMP == clock < BranchSteps /\ DoCMP(RWord(CMP, 0, R_TMP1, R_ACC, 0))
BranchFEMPTY == clock < BranchSteps /\ DoFEMPTY(RWord(FEMPTY, 0, 0, 0, 0))
BranchBZ == clock < BranchSteps /\ \E w \in BranchWords(BZ) : DoBZ(w)
BranchBNZ == clock < BranchSteps /\ \E w \in BranchWords(BNZ) : DoBNZ(w)
BranchBLT == clock < BranchSteps /\ \E w \in BranchWords(BLT) : DoBLT(w)
BranchBGE == clock < BranchSteps /\ \E w \in BranchWords(BGE) : DoBGE(w)
BranchJMP == clock < BranchSteps /\ \E w \in BranchWords(JMP) : DoJMP(w)
BranchHalt == FetchHalt(IWord(HALT, 0, 0, 0, 0))

NextBranch ==
    \/ BranchMOV \/ BranchCMP \/ BranchFEMPTY
    \/ BranchBZ \/ BranchBNZ \/ BranchBLT \/ BranchBGE \/ BranchJMP
    \/ BranchHalt

InitBranch == \E eh \in BOOLEAN : InitHooked(GraphA, FALSE, eh)
SpecBranch == InitBranch /\ [][NextBranch]_vars

(***************************************************************************)
(* Arithmetic and memory: programs of MOV, ADD, SUB, MUL, DIV, LD and ST   *)
(* over a few registers, the reserved ones among them.                     *)
(***************************************************************************)
ArithSteps == 3

ArithMOV ==
    /\ clock < ArithSteps
    /\ \/ \E r \in {R_TMP1, R_ZERO, R_CORE} : DoMOV(IWord(MOV, FLAG_I, r, 0, 6))
       \/ \E r \in {F_TMP1, F_ZERO} : DoMOV(IWord(MOV, FLAG_I + FLAG_F, r, 0, F_2_5))
ArithADD ==
    /\ clock < ArithSteps
    /\ \/ DoADD(RWord(ADD, 0, R_ZERO, R_TMP1, R_TMP1))
       \/ DoADD(IWord(ADD, FLAG_I, R_TMP1, R_TMP1, INT32_MAX))
       \/ DoADD(IWord(ADD, FLAG_I + FLAG_F, F_ACC, F_TMP1, F_1_0))
ArithSUB ==
    /\ clock < ArithSteps
    /\ \/ DoSUB(IWord(SUB, FLAG_I, R_ACC, R_TMP1, 7))
       \/ DoSUB(RWord(SUB, FLAG_F, F_ACC, F_ACC, F_TMP1))
ArithMUL ==
    /\ clock < ArithSteps
    /\ \/ DoMUL(RWord(MUL, 0, R_TMP1, R_TMP1, R_TMP1))
       \/ DoMUL(IWord(MUL, FLAG_I + FLAG_F, F_TMP1, F_TMP1, F_2_5))
ArithDIV ==
    /\ clock < ArithSteps
    /\ \/ DoDIV(RWord(DIV, 0, R_ACC, R_TMP1, R_ZERO))
       \/ \E k \in {0, 4} : DoDIV(IWord(DIV, FLAG_I, R_ACC, R_TMP1, k))
       \/ DoDIV(RWord(DIV, FLAG_F, F_ACC, F_TMP1, F_ZERO))
ArithLD ==
    /\ clock < ArithSteps
    /\ \/ \E a \in {5, MEMORY_SIZE} : DoLD(IWord(LD, FLAG_I, R_ZERO, 0, a))
       \/ DoLD(RWord(LD, FLAG_F, F_ZERO, R_TMP1, 0))
ArithST ==
    /\ clock < ArithSteps
    /\ \/ DoST(IWord(ST, FLAG_I, R_TMP1, 0, 5))
       \/ DoST(RWord(ST, FLAG_F, F_TMP1, R_TMP1, 0))

NextArith ==
    ArithMOV \/ ArithADD \/ ArithSUB \/ ArithMUL \/ ArithDIV \/ ArithLD \/ ArithST

InitArith == InitVM(GraphA)
SpecArith == InitArith /\ [][NextArith]_vars

(***************************************************************************)
(* A caller of the frontier functions on the frontier fobj[0]              *)
(***************************************************************************)
QueueCalls == 6

vmState == <<PC, FLAGS, data, decoded, regs, memory, cursors, graph, frontier, next_frontier,
             clock, hooks, debug_calls, exit_calls, result, pc>>

CallInit ==
    /\ ncalls < QueueCalls
    /\ LET r == frontier_init(fobj[0], FRONTIER_QUEUE)
       IN  /\ fobj' = [fobj EXCEPT ![0] = r.frontier]
           /\ ret' = r.ret
    /\ call' = "init" /\ ncalls' = ncalls + 1
    /\ fifo' = <<>>
    /\ UNCHANGED <<vmState, node, args>>

CallPush(v) ==
    /\ ncalls < QueueCalls
    /\ LET r == frontier_push(fobj[0], v)
       IN  /\ fobj' = [fobj EXCEPT ![0] = r.frontier]
           /\ ret' = r.ret
           /\ fifo' = IF r.ret = 0 THEN Append(fifo, v) ELSE fifo
    /\ call' = "push" /\ ncalls' = ncalls + 1
    /\ UNCHANGED <<vmState, node, args>>

CallPop ==
    /\ ncalls < QueueCalls
    /\ LET r == frontier_pop(fobj[0], node)
       IN  /\ fobj' = [fobj EXCEPT ![0] = r.frontier]
           /\ ret' = r.ret
           /\ node' = r.node
           /\ fifo' = IF r.ret = 0 THEN Tail(fifo) ELSE fifo
    /\ call' = "pop" /\ ncalls' = ncalls + 1
    /\ UNCHANGED <<vmState, args>>

CallEmpty ==
    /\ ncalls < QueueCalls
    /\ ret' = frontier_empty(fobj[0])
    /\ call' = "empty" /\ ncalls' = ncalls + 1
    /\ UNCHANGED <<vmState, fobj, node, fifo, args>>

PushNode == \E v \in {8, 9} : CallPush(v)

NextQueue == CallInit \/ PushNode \/ CallPop \/ CallEmpty

\* the value the caller pushed as its i-th (from 0) before the calls explored
PreNode(i) == (i % 3) + 1

\* the frontier after frontier_init and then k <= MAX_QUEUE_SIZE pushes, of
\* PreNode(0), ..., PreNode(k - 1), and j <= k pops: push i wrote slot i and
\* advanced front, a pop advanced back and left the slot as it was
Preloaded(k, j) ==
    [type |-> FRONTIER_QUEUE,
     queue |-> [data |-> [i \in 0..(k - 1) |-> PreNode(i)], front |-> k, back |-> j]]

\* the caller has initialised the frontier, pushed k values and popped j of them
Preloads ==
    {<<0, 0>>, <<MAX_QUEUE_SIZE - 2, 0>>, <<MAX_QUEUE_SIZE - 1, MAX_QUEUE_SIZE - 2>>}

InitQueue ==
    \E pre \in Preloads :
      /\ ResetFields
      /\ FA = 0
      /\ data = HaltWord
      /\ flags = 0
      /\ graph = GraphA
      /\ fobj = [o \in 0..1 |->
                   IF o = 0
                   THEN Preloaded(pre[1], pre[2])
                   ELSE frontier_init(ZeroFrontier, FRONTIER_QUEUE).frontier]
      /\ frontier = 0 /\ next_frontier = 1
      /\ debug_hook = FALSE /\ exit_hook = TRUE
      /\ debug_calls = <<>> /\ exit_calls = <<>>
      /\ result = VM_CONTINUE
      /\ pc = "run"
      /\ call = "none" /\ ncalls = 0 /\ ret = 0 /\ node = 0 /\ args = <<>>
      /\ fifo = [i \in 1..(pre[1] - pre[2]) |-> PreNode(pre[2] + i - 1)]

SpecQueue == InitQueue /\ [][NextQueue]_vars

(***************************************************************************)
(* Properties                                                              *)
(***************************************************************************)
\* this step executed an instruction of opcode op (execute returned)
Executed(op) == clock' = clock + 1 /\ ISA' = op

\* the float with these bits has an integer value
FIsIntegral(bits) ==
    \/ FIsZero(bits)
    \/ /\ FExp(bits) \in 127..254
       /\ FExp(bits) >= 150 \/ FMant(bits) % Pow2(150 - FExp(bits)) = 0

\* register value v is the weight stored as word bits: the same word, or the
\* integer the float has as its value
WeightIs(bits, v) ==
    \/ v = bits
    \/ FIsIntegral(bits) /\ FloatToInt32(bits) = {v}

EdgeCount(g) == g.row_index[g.n]
Degree(g, u) == g.row_index[u + 1] - g.row_index[u]
\* the row that holds edge j
EdgeSrc(g, j) == CHOOSE u \in 0..(g.n - 1) : g.row_index[u] <= j /\ j < g.row_index[u + 1]
\* the edges an edge sweep that stands at (R_NODE, eiter) has passed
SweepPos == IF R[R_NODE] \in 0..(graph.n - 1) THEN graph.row_index[R[R_NODE]] + eiter
            ELSE EdgeCount(graph)

\* C5: on a graph whose rows all have an edge, the ENEXT calls after EITER
\* deliver the edges in CSR order, one per call (R_NODE = source, R_NBR =
\* destination, R_VAL = weight, FLAGS clear), and only the call after the last
\* edge sets FLAGS.Z.
C5_SweepDeliversAllEdges ==
    [][Executed(ENEXT) =>
         IF SweepPos < EdgeCount(graph)
         THEN /\ FLAGS' = 0
              /\ R'[R_NODE] = EdgeSrc(graph, SweepPos)
              /\ R'[R_NBR] = graph.col_index[SweepPos]
              /\ WeightIs(graph.values[SweepPos], R'[R_VAL])
         ELSE FLAGS' = FLAG_ZERO]_vars

\* C6: with 0 <= R_NODE < n and a slot k in 0..3, NITER k zeroes niter[k]; an
\* NNEXT k with niter[k] = i < degree loads R_NBR and R_VAL from index
\* row_index[R_NODE] + i, increments niter[k] and leaves FLAGS = 0; an NNEXT k
\* with niter[k] >= degree sets FLAGS.Z and leaves niter[k], R_NBR, R_VAL.
C6_NeighbourIteration ==
    [][/\ (Executed(NITER) /\ A2' \in 0..3 => niter'[A2'] = 0)
       /\ (Executed(NNEXT) /\ A2' \in 0..3 /\ R[R_NODE] \in 0..(graph.n - 1) =>
             LET k == A2'
                 u == R[R_NODE]
                 j == graph.row_index[u] + niter[k]
             IN  IF niter[k] < Degree(graph, u)
                 THEN /\ FLAGS' = 0
                      /\ R'[R_NBR] = graph.col_index[j]
                      /\ WeightIs(graph.values[j], R'[R_VAL])
                      /\ niter'[k] = niter[k] + 1
                 ELSE /\ FLAGS' = FLAG_ZERO
                      /\ niter'[k] = niter[k]
                      /\ R'[R_NBR] = R[R_NBR]
                      /\ R'[R_VAL] = R[R_VAL])]_vars

\* the queues vm->frontier and vm->next_frontier refer to
CurQ == fobj[frontier].queue
NextQ == fobj[next_frontier].queue

\* C2: FPOP on an empty current frontier, FPUSH on a next_frontier of
\* MAX_QUEUE_SIZE entries and FFILL on a current frontier without room for the
\* n nodes make execute return VM_ERROR.
C2_FrontierFaultIsError ==
    [][(\/ Executed(FPOP) /\ QSize(CurQ) = 0
        \/ Executed(FPUSH) /\ QSize(NextQ) = MAX_QUEUE_SIZE
        \/ Executed(FFILL) /\ QSize(CurQ) + graph.n > MAX_QUEUE_SIZE)
       => result' = VM_ERROR]_vars

\* C3: after FSWAP the frontier next_frontier refers to is empty and the
\* frontier that frontier refers to holds what the old next_frontier held.
C3_SwapLeavesNextEmpty ==
    [][Executed(FSWAP) =>
         /\ QSize(fobj'[next_frontier'].queue) = 0
         /\ QContents(fobj'[frontier'].queue) = QContents(NextQ)]_vars

\* the queue of the frontier the caller works on
CallQ == fobj[0].queue

\* C9: the ring buffer is a FIFO: its entries, oldest first, are the values
\* pushed and not yet popped, in push order; a successful push adds one entry
\* at the end, a successful pop removes the oldest entry and returns it.
C9_RingIsFifo ==
    /\ [](QContents(CallQ) = fifo)
    /\ [][/\ (call' = "push" /\ ret' = 0 =>
                /\ QSize(CallQ') = QSize(CallQ) + 1
                /\ QContents(CallQ') = Append(QContents(CallQ), fifo'[Len(fifo')]))
          /\ (call' = "pop" /\ ret' = 0 =>
                /\ QSize(CallQ') = QSize(CallQ) - 1
                /\ node' = QContents(CallQ)[1]
                /\ QContents(CallQ') = Tail(QContents(CallQ)))]_vars

\* C9 witness: a pop succeeded that read the slot after the pop cursor passed
\* the end of the ring.
C9_PoppedPastWrap ==
    call = "pop" /\ ret = 0 /\ CallQ.back > MAX_QUEUE_SIZE

\* C10: the push cursor minus the pop cursor stays in 0..MAX_QUEUE_SIZE;
\* frontier_empty returns 1 exactly when the cursors are equal; a push is
\* rejected exactly when the difference is MAX_QUEUE_SIZE.
C10_CursorRange ==
    /\ [](CallQ.front - CallQ.back \in 0..MAX_QUEUE_SIZE)
    /\ [][/\ (call' = "empty" => ((ret' = 1) <=> (CallQ.front = CallQ.back)))
          /\ (call' = "push" =>
                ((ret' # 0) <=> (CallQ.front - CallQ.back = MAX_QUEUE_SIZE)))]_vars

\* C10 witness: a push was rejected on a frontier of MAX_QUEUE_SIZE entries.
C10_PushRejectedWhenFull ==
    call = "push" /\ ret = -1 /\ CallQ.front - CallQ.back = MAX_QUEUE_SIZE

(***************************************************************************)
(* Branches                                                                *)
(***************************************************************************)
Branches == {BZ, BNZ, BLT, BGE, JMP}
FlagIsSet(bit) == (FLAGS \div bit) % 2 = 1

\* the condition the branch opcode op branches under
BranchesWhen(op) ==
    CASE op = JMP -> TRUE
      [] op = BZ -> FlagIsSet(FLAG_ZERO)
      [] op = BNZ -> ~FlagIsSet(FLAG_ZERO)
      [] op = BLT -> FlagIsSet(FLAG_NEG)
      [] op = BGE -> FlagIsSet(FLAG_POS) \/ FlagIsSet(FLAG_ZERO)

\* C7: a branch whose target is negative or at least PROGRAM_SIZE ends the run
\* with Error and does not assign the target to PC: PC stays where the fetch
\* left it (one back where the exit hook of main is set)
C7_BranchOutOfRangeIsError ==
    [][\A op \in Branches :
          Executed(op) /\ (A2' < 0 \/ A2' >= 8192) =>
              /\ result' = VM_ERROR
              /\ pc' = "done"
              /\ PC' = IF exit_hook THEN PC ELSE PC + 1]_vars

\* an out-of-range JMP from the last program slot was refused
C7_RefusedJump ==
    /\ ISA = JMP /\ A2 = PROGRAM_SIZE /\ clock = 2 /\ PC >= PROGRAM_SIZE - 1
    /\ result = VM_ERROR /\ pc = "done"
    /\ PC = IF exit_hook THEN PROGRAM_SIZE - 1 ELSE PROGRAM_SIZE

\* C8: a branch with a target in 0..PROGRAM_SIZE-1 continues at the target
\* exactly when its condition holds (JMP always, BZ on Z, BNZ on not Z, BLT
\* on N, BGE on P or Z) and at the next instruction otherwise, and changes
\* nothing else of the machine
C8_BranchCondition ==
    [][\A op \in Branches :
          Executed(op) /\ A2' \in 0..8191 =>
              /\ result' = VM_CONTINUE
              /\ PC' = IF BranchesWhen(op) THEN A2' ELSE PC + 1
              /\ UNCHANGED <<FLAGS, regs, memory, cursors, graph, fronts>>]_vars

\* a BGE was taken on the zero flag, set next to the negative flag
C8_TakenOnZero ==
    /\ ISA = BGE /\ FLAGS = FLAG_ZERO + FLAG_NEG /\ A2 = 100 /\ PC = 100
    /\ result = VM_CONTINUE /\ clock = 4

(***************************************************************************)
(* Reserved registers and division                                         *)
(***************************************************************************)
\* C1: the zero registers and the core register hold 0 in every reachable
\* state, also after an instruction that names one of them as destination
C1_ReservedRegistersAreZero ==
    R[R_ZERO] = 0 /\ F[F_ZERO] = 0 /\ R[R_CORE] = 0

\* C4: an integer DIV whose divisor (register or immediate) is 0 returns
\* Error and leaves the destination register as it was
C4_DivByZeroIsError ==
    [][/\ pc = "run" /\ (pc' = "trap" \/ clock' = clock + 1)
       /\ ISA' = DIV
       /\ (flags' \div FLAG_F) % 2 = 0
       /\ 0 = IF flags' % 2 = 1 THEN A2' ELSE R[A2']
       => result' = VM_ERROR /\ R'[A0'] = R[A0']]_vars

(***************************************************************************)
(* Comparison: programs of MOV into R_TMP1 and R_ACC and CMP in its four   *)
(* forms, over operands at the ends and the middle of int32_t.             *)
(***************************************************************************)
CmpSteps == 3

CmpOperands == {INT32_MIN, -1, 0, 1, INT32_MAX}

CmpMOV ==
    /\ clock < CmpSteps
    /\ \/ \E r \in {R_TMP1, R_ACC}, v \in CmpOperands : DoMOV(IWord(MOV, FLAG_I, r, 0, v))
       \/ DoMOV(IWord(MOV, FLAG_I + FLAG_F, F_TMP1, 0, F_2_5))
CmpCMP ==
    /\ clock < CmpSteps
    /\ \/ DoCMP(RWord(CMP, 0, R_TMP1, R_ACC, R_VAL))
       \/ \E v \in {0, 1} : DoCMP(IWord(CMP, FLAG_I, R_TMP1, R_ACC, v))
       \/ DoCMP(RWord(CMP, FLAG_F, F_TMP1, F_ACC, F_ZERO))
       \/ DoCMP(IWord(CMP, FLAG_I + FLAG_F, R_TMP1, R_ACC, F_1_0))

NextCmp == CmpMOV \/ CmpCMP

InitCmp == InitVM(GraphA)
SpecCmp == InitCmp /\ [][NextCmp]_vars

(***************************************************************************)
(* Casts: programs of MOV into R[1] and F[1] and MOVC from register 1 to   *)
(* register 2, in its four forms.                                          *)
(***************************************************************************)
CastSteps == 3

\* integers that are floats, one that has to be rounded (2^24 + 1), the least
CastInts == {6, -7, Pow2(24) + 1, INT32_MIN}
\* floats with and without a fraction, and one beyond int32_t (2^31)
CastFloats == {F_2_5, FNeg(F_7_0), FBits(0, 158, 0)}

CastMOV ==
    /\ clock < CastSteps
    /\ \/ \E v \in CastInts : DoMOV(IWord(MOV, FLAG_I, 1, 0, v))
       \/ \E v \in CastFloats : DoMOV(IWord(MOV, FLAG_I + FLAG_F, 1, 0, v))
CastMOVC ==
    /\ clock < CastSteps
    /\ \/ \E fl \in {0, FLAG_F} : DoMOVC(RWord(MOVC, fl, 2, 1, 0))
       \/ DoMOVC(IWord(MOVC, FLAG_I, 2, 1, 9))
       \/ DoMOVC(IWord(MOVC, FLAG_I + FLAG_F, 2, 1, F_1_0))

NextCast == CastMOV \/ CastMOVC

InitCast == InitVM(GraphA)
SpecCast == InitCast /\ [][NextCast]_vars

(***************************************************************************)
(* Memory: programs of MOV into R_TMP1 (the address), R_ACC and F_TMP1     *)
(* (the values) and LD and ST in their four forms, at addresses inside,    *)
(* at the ends of and outside memory.                                      *)
(***************************************************************************)
MemSteps == 4

MemAddrs == {-1, 0, 5, MEMORY_SIZE - 1, MEMORY_SIZE}

MemMOV ==
    /\ clock < MemSteps
    /\ \/ \E a \in MemAddrs : DoMOV(IWord(MOV, FLAG_I, R_TMP1, 0, a))
       \/ DoMOV(IWord(MOV, FLAG_I, R_ACC, 0, 7))
       \/ DoMOV(IWord(MOV, FLAG_I + FLAG_F, F_TMP1, 0, F_2_5))
MemST ==
    /\ clock < MemSteps
    /\ \/ \E a \in MemAddrs : DoST(IWord(ST, FLAG_I, R_ACC, 0, a))
       \/ DoST(RWord(ST, 0, R_ACC, R_TMP1, 0))
       \/ \E a \in {5, MEMORY_SIZE} : DoST(IWord(ST, FLAG_I + FLAG_F, F_TMP1, 0, a))
       \/ DoST(RWord(ST, FLAG_F, F_TMP1, R_TMP1, 0))
MemLD ==
    /\ clock < MemSteps
    /\ \/ \E a \in MemAddrs : DoLD(IWord(LD, FLAG_I, R_VAL, 0, a))
       \/ DoLD(RWord(LD, 0, R_VAL, R_TMP1, 0))
       \/ \E a \in {5, MEMORY_SIZE} : DoLD(IWord(LD, FLAG_I + FLAG_F, F_ACC, 0, a))
       \/ DoLD(RWord(LD, FLAG_F, F_ACC, R_TMP1, 0))

NextMem == MemMOV \/ MemST \/ MemLD

InitMem == InitVM(GraphA)
SpecMem == InitMem /\ [][NextMem]_vars

(***************************************************************************)
(* Vectors: programs of VSET into register 1, MOV into R_TMP1 (the base),  *)
(* VST from register 1 and VLD into register 2, at bases inside memory,    *)
(* around its last LANE_SIZE words, and outside.                           *)
(***************************************************************************)
VecSteps == 4

VecBases == {-1, 0, MEMORY_SIZE - LANE_SIZE - 1, MEMORY_SIZE - LANE_SIZE,
             MEMORY_SIZE - LANE_SIZE + 1, INT32_MAX}

VecVSET ==
    /\ clock < VecSteps
    /\ \/ DoVSET(IWord(VSET, FLAG_I, 1, 0, 9))
       \/ DoVSET(IWord(VSET, FLAG_I + FLAG_F, 1, 0, F_2_5))
       \/ DoVSET(RWord(VSET, 0, 1, R_TMP1, 0))
       \/ DoVSET(RWord(VSET, FLAG_F, 1, F_ZERO, 0))
VecMOV ==
    /\ clock < VecSteps
    /\ \E b \in VecBases : DoMOV(IWord(MOV, FLAG_I, R_TMP1, 0, b))
VecVST ==
    /\ clock < VecSteps
    /\ \/ \E b \in VecBases : DoVST(IWord(VST, FLAG_I, 1, 0, b))
       \/ \E fl \in {0, FLAG_F} : DoVST(RWord(VST, fl, 1, R_TMP1, 0))
       \/ DoVST(IWord(VST, FLAG_I + FLAG_F, 1, 0, MEMORY_SIZE))
VecVLD ==
    /\ clock < VecSteps
    /\ \/ \E b \in VecBases : DoVLD(IWord(VLD, FLAG_I, 2, 0, b))
       \/ \E fl \in {0, FLAG_F} : DoVLD(RWord(VLD, fl, 2, R_TMP1, 0))
       \/ DoVLD(IWord(VLD, FLAG_I + FLAG_F, 2, 0, MEMORY_SIZE))

NextVec == VecVSET \/ VecMOV \/ VecVST \/ VecVLD

InitVec == InitVM(GraphA)
SpecVec == InitVec /\ [][NextVec]_vars

(***************************************************************************)
(* Errors: programs that build up state (MOV, CMP, FPUSH, NITER, NNEXT,    *)
(* ST, VSET) and then run into one of execute's bounds checks.             *)
(***************************************************************************)
ErrSteps == 4

\* out-of-range operands: one past the end, and negative
ErrSlots == {4, -1}
ErrTargets == {PROGRAM_SIZE, -1}
ErrAddrs == {MEMORY_SIZE, -1}

ErrMOV ==
    /\ clock < ErrSteps
    /\ \E v \in {7} \cup ErrAddrs : DoMOV(IWord(MOV, FLAG_I, R_TMP1, 0, v))
ErrCMP ==
    /\ clock < ErrSteps
    /\ DoCMP(RWord(CMP, 0, R_TMP1, R_ACC, R_VAL))
ErrFPUSH ==
    /\ clock < ErrSteps
    /\ DoFPUSH(RWord(FPUSH, 0, R_TMP1, 0, 0))
ErrNITER ==
    /\ clock < ErrSteps
    /\ \E k \in {1} \cup ErrSlots : DoNITER(IWord(NITER, FLAG_I, 0, 0, k))
ErrNNEXT ==
    /\ clock < ErrSteps
    /\ \E k \in {1} \cup ErrSlots : DoNNEXT(IWord(NNEXT, FLAG_I, 0, 0, k))
ErrBranch ==
    /\ clock < ErrSteps
    /\ \E t \in ErrTargets :
         \/ DoBZ(IWord(BZ, FLAG_I, 0, 0, t))
         \/ DoBNZ(IWord(BNZ, FLAG_I, 0, 0, t))
         \/ DoBLT(IWord(BLT, FLAG_I, 0, 0, t))
         \/ DoBGE(IWord(BGE, FLAG_I, 0, 0, t))
         \/ DoJMP(IWord(JMP, FLAG_I, 0, 0, t))
ErrST ==
    /\ clock < ErrSteps
    /\ \/ \E a \in {5} \cup ErrAddrs : DoST(IWord(ST, FLAG_I, R_TMP1, 0, a))
       \/ \E fl \in {0, FLAG_F} : DoST(RWord(ST, fl, R_TMP1, R_TMP1, 0))
ErrLD ==
    /\ clock < ErrSteps
    /\ \/ \E a \in ErrAddrs : DoLD(IWord(LD, FLAG_I, R_ACC, 0, a))
       \/ \E fl \in {0, FLAG_F} : DoLD(RWord(LD, fl, R_ACC, R_TMP1, 0))

NextErr ==
    ErrMOV \/ ErrCMP \/ ErrFPUSH \/ ErrNITER \/ ErrNNEXT \/ ErrBranch \/ ErrST \/ ErrLD

InitErr == InitVM(GraphA)
SpecErr == InitErr /\ [][NextErr]_vars

(***************************************************************************)
(* The loop of run: programs of MOV, CMP, JMP, the concurrency opcodes, a   *)
(* HALT instruction, the halt word, and words decode rejects; with and     *)
(* without each hook.                                                      *)
(***************************************************************************)
RunSteps == 3

\* MOV R_TMP1, #7 under each flags byte: 1 is the I-type integer form, the
\* others are reserved
RunMovWords == {IWord(MOV, fl, R_TMP1, 0, 7) : fl \in {FLAG_I, 4, 5, 255}}
\* words of an opcode byte past UNLOCK
RunBadOps == {IWord(op, fl, R_TMP1, 0, 7) : op \in {UNLOCK + 1, 255}, fl \in {0, FLAG_I}}
RunTargets == {PROGRAM_SIZE - 1, PROGRAM_SIZE, -1}

RunMOV ==
    /\ clock < RunSteps
    /\ \E w \in RunMovWords : DoMOV(w)
RunCMP ==
    /\ clock < RunSteps
    /\ DoCMP(RWord(CMP, 0, R_TMP1, R_ACC, R_VAL))
RunJMP ==
    /\ clock < RunSteps
    /\ \E t \in RunTargets : DoJMP(IWord(JMP, FLAG_I, 0, 0, t))
RunSync ==
    /\ clock < RunSteps
    /\ \E op \in {PARALLEL, BARRIER, LOCK, UNLOCK}, fl \in 0..3 :
         DoSync(IWord(op, fl, R_TMP1, R_TMP1, 7))
RunHALT ==
    /\ clock < RunSteps
    /\ DoHALT(IWord(HALT, FLAG_I, 0, 0, 0))
RunFetchHalt ==
    /\ clock < RunSteps
    /\ FetchHalt(HaltWord)
RunDecodeFail ==
    /\ clock < RunSteps
    /\ \E w \in RunMovWords \cup RunBadOps : DecodeFail(w)

NextRun ==
    RunMOV \/ RunCMP \/ RunJMP \/ RunSync \/ RunHALT \/ RunFetchHalt \/ RunDecodeFail

InitRun == \E dh \in BOOLEAN, eh \in BOOLEAN : InitHooked(GraphA, dh, eh)
SpecRun == InitRun /\ [][NextRun]_vars

(***************************************************************************)
(* Breadth-first search from node 0 as a program of the VM, run on every   *)
(* digraph of BfsNodes nodes: the source is marked in memory and pushed to   *)
(* next_frontier; a round is an FSWAP and the draining of frontier, each   *)
(* popped node's unmarked neighbours being marked and pushed. R_TMP2       *)
(* counts the rounds, from 0.                                              *)
(***************************************************************************)
BfsNodes == 3

BfsProgram ==
    <<IWord(MOV, FLAG_I, R_NODE, 0, 0),          \*  0  source
      IWord(MOV, FLAG_I, R_TMP1, 0, 1),          \*  1  the mark
      IWord(MOV, FLAG_I, R_TMP2, 0, -1),         \*  2  round
      RWord(ST, 0, R_TMP1, R_NODE, 0),           \*  3  memory[R_NODE] = 1
      RWord(FPUSH, 0, R_NODE, 0, 0),             \*  4
      RWord(FSWAP, 0, 0, 0, 0),                  \*  5  round:
      IWord(ADD, FLAG_I, R_TMP2, R_TMP2, 1),     \*  6
      RWord(FEMPTY, 0, 0, 0, 0),                 \*  7
      IWord(BZ, FLAG_I, 0, 0, 22),               \*  8  nothing to pop: end
      RWord(FPOP, 0, R_NODE, 0, 0),              \*  9  node:
      IWord(NITER, FLAG_I, 0, 0, 0),             \* 10
      IWord(NNEXT, FLAG_I, 0, 0, 0),             \* 11  neighbour:
      IWord(BZ, FLAG_I, 0, 0, 19),               \* 12  no more neighbours
      RWord(LD, 0, R_ACC, R_NBR, 0),             \* 13  R_ACC = memory[R_NBR]
      RWord(CMP, 0, R_ACC, R_ZERO, R_ACC),       \* 14
      IWord(BNZ, FLAG_I, 0, 0, 11),              \* 15  marked: next neighbour
      RWord(ST, 0, R_TMP1, R_NBR, 0),            \* 16  memory[R_NBR] = 1
      RWord(FPUSH, 0, R_NBR, 0, 0),              \* 17
      IWord(JMP, FLAG_I, 0, 0, 11),              \* 18
      RWord(FEMPTY, 0, 0, 0, 0),                 \* 19
      IWord(BNZ, FLAG_I, 0, 0, 9),               \* 20  next node
      IWord(JMP, FLAG_I, 0, 0, 5)>>              \* 21  next round

\* program[PC]
BfsWord == IF PC < Len(BfsProgram) THEN BfsProgram[PC + 1] ELSE HaltWord

\* the elements of a set of integers, ascending
RECURSIVE Ascending(_)
Ascending(S) ==
    IF S = {} THEN <<>>
    ELSE LET m == CHOOSE x \in S : \A y \in S : x <= y
         IN  <<m>> \o Ascending(S \ {m})

\* the CSR form of the graph whose node u has the edges u -> v, v in adj[u]
RECURSIVE RowStart(_, _)
RowStart(adj, u) == IF u = 0 THEN 0 ELSE RowStart(adj, u - 1) + Cardinality(adj[u - 1])
RECURSIVE ColsFrom(_, _, _)
ColsFrom(adj, u, n) == IF u = n THEN <<>> ELSE Ascending(adj[u]) \o ColsFrom(adj, u + 1, n)
BfsGraph(n, adj) ==
    Graph([i \in 1..(n + 1) |-> RowStart(adj, i - 1)],
          ColsFrom(adj, 0, n),
          [i \in 1..RowStart(adj, n) |-> F_1_0])

BfsMOV == DoMOV(BfsWord)
BfsST == DoST(BfsWord)
BfsLD == DoLD(BfsWord)
BfsADD == DoADD(BfsWord)
BfsCMP == DoCMP(BfsWord)
BfsFPUSH == DoFPUSH(BfsWord)
BfsFPOP == DoFPOP(BfsWord)
BfsFSWAP == DoFSWAP(BfsWord)
BfsFEMPTY == DoFEMPTY(BfsWord)
BfsNITER == DoNITER(BfsWord)
BfsNNEXT == DoNNEXT(BfsWord)
BfsBZ == DoBZ(BfsWord)
BfsBNZ == DoBNZ(BfsWord)
BfsJMP == DoJMP(BfsWord)
BfsHalt == FetchHalt(BfsWord)

NextBfs ==
    \/ BfsMOV \/ BfsST \/ BfsLD \/ BfsADD \/ BfsCMP
    \/ BfsFPUSH \/ BfsFPOP \/ BfsFSWAP \/ BfsFEMPTY
    \/ BfsNITER \/ BfsNNEXT
    \/ BfsBZ \/ BfsBNZ \/ BfsJMP \/ BfsHalt

\* the directed graphs of BfsNodes nodes without an edge from a node to itself
BfsGraphs ==
    {BfsGraph(BfsNodes, adj) :
        adj \in {a \in [0..(BfsNodes - 1) -> SUBSET (0..(BfsNodes - 1))] :
                    \A u \in DOMAIN a : u \notin a[u]}}

InitBfs == \E g \in BfsGraphs : InitVM(g)
SpecBfs == InitBfs /\ [][NextBfs]_vars

(***************************************************************************)
(* Graph lookups: programs of MOV into R_NODE and R_NBR, HASE, DEG, NNEXT  *)
(* and BZ, with node numbers inside and outside the graph.                 *)
(***************************************************************************)
GraphSteps == 4

GraphMOV ==
    /\ clock < GraphSteps
    /\ \E r \in {R_NODE, R_NBR}, v \in {-1, 0, 1, 2} : DoMOV(IWord(MOV, FLAG_I, r, 0, v))
GraphHASE == clock < GraphSteps /\ DoHASE(RWord(HASE, 0, 0, 0, 0))
GraphDEG == clock < GraphSteps /\ \E r \in {R_NODE, R_NBR} : DoDEG(RWord(DEG, 0, r, 0, 0))
GraphNNEXT == clock < GraphSteps /\ DoNNEXT(RWord(NNEXT, 0, 0, 0, 0))
GraphBZ == clock < GraphSteps /\ DoBZ(IWord(BZ, FLAG_I, 0, 0, 100))

NextGraph == GraphMOV \/ GraphHASE \/ GraphDEG \/ GraphNNEXT \/ GraphBZ

InitGraph == \E g \in {GraphA, GraphB} : InitVM(g)
SpecGraph == InitGraph /\ [][NextGraph]_vars

(***************************************************************************)
(* graph_has_edge called on the graphs of two rows whose slices are sorted *)
(* and at most SearchLen long.                                             *)
(***************************************************************************)
SearchLen == 3

\* the sorted column slices
SearchRows ==
    UNION {{s \in [1..k -> 0..SearchLen] : \A i \in 1..(k - 1) : s[i] <= s[i + 1]} :
             k \in 0..SearchLen}

SearchGraph(r0, r1) ==
    Graph(<<0, Len(r0), Len(r0) + Len(r1)>>, r0 \o r1, [i \in 1..(Len(r0) + Len(r1)) |-> 0])

CallHasEdge ==
    /\ call = "none"
    /\ \E u \in 0..(graph.n - 1), v \in -1..(SearchLen + 1) :
         /\ args' = <<u, v>>
         /\ \E r \in graph_has_edge(graph, u, v) :
              /\ ret' = r.ret
              /\ call' = IF r.ok THEN "has_edge" ELSE "has_edge, no return"
    /\ ncalls' = ncalls + 1
    /\ UNCHANGED <<vmState, fobj, node, fifo>>

NextSearch == CallHasEdge

InitSearch == \E r0 \in SearchRows, r1 \in SearchRows : InitVM(SearchGraph(r0, r1))
SpecSearch == InitSearch /\ [][NextSearch]_vars

(***************************************************************************)
(* Failed frontier calls                                                   *)
(***************************************************************************)
\* C11: frontier_pop on an empty FIFO frontier and frontier_push on a FIFO
\* frontier of MAX_QUEUE_SIZE entries return -1 and leave the cursors, the
\* stored data and, for the pop, the caller's output location as they were
C11_FailedCallChangesNothing ==
    [][/\ (call' = "pop" /\ CallQ.front = CallQ.back =>
             ret' = -1 /\ fobj' = fobj /\ node' = node)
       /\ (call' = "push" /\ CallQ.front - CallQ.back = MAX_QUEUE_SIZE =>
             ret' = -1 /\ fobj' = fobj)]_vars

\* a pop failed on the frontier it had just emptied: the location still holds
\* the value the pop before it delivered
C11_FailedPopKeptNode ==
    /\ call = "pop" /\ ret = -1 /\ node \in {8, 9}
    /\ CallQ.front = CallQ.back /\ CallQ.front > 0

(***************************************************************************)
(* Edge lookup                                                             *)
(***************************************************************************)
\* the slice of row u holds v, by a scan of the slice
RowHolds(g, u, v) ==
    \E j \in DOMAIN g.col_index :
        g.row_index[u] <= j /\ j < g.row_index[u + 1] /\ g.col_index[j] = v

\* the node number id is a node of g
IsNode(g, id) == id \in 0..(g.n - 1)

\* C12: on a node R_NODE of the graph, HASE leaves FLAGS = Z alone (N and P
\* clear) when no edge leads from R_NODE to R_NBR, and FLAGS = 0 when one does
C12_HaseSetsZOnNoEdge ==
    [][Executed(HASE) /\ IsNode(graph, R[R_NODE]) =>
         /\ result' = VM_CONTINUE
         /\ FLAGS' = IF RowHolds(graph, R[R_NODE], R[R_NBR]) THEN 0 ELSE FLAG_ZERO]_vars

\* a BZ was taken after a HASE that found no edge from node 1 to node 2
C12_BranchedOnNoEdge ==
    /\ ISA = BZ /\ PC = 100 /\ FLAGS = FLAG_ZERO
    /\ R[R_NODE] = 1 /\ R[R_NBR] = 2 /\ clock = 4

\* C18: NNEXT, HASE and DEG on a node number outside 0..n-1 (R_NODE, and
\* R[arg1] for DEG) end the run with VM_ERROR
C18_NodeOutOfRangeIsError ==
    [][/\ pc = "run" /\ (pc' = "trap" \/ clock' = clock + 1)
       /\ \/ ISA' = NNEXT /\ A2' \in 0..3 /\ ~IsNode(graph, R[R_NODE])
          \/ ISA' = HASE /\ ~IsNode(graph, R[R_NODE])
          \/ ISA' = DEG /\ ~IsNode(graph, R[A0'])
       => result' = VM_ERROR /\ pc' = "done"]_vars

\* C13: on a graph whose row slices are sorted, graph_has_edge(u, v) with
\* u < n returns, and returns 1 exactly when v is in the slice of row u
C13_HasEdgeIsRowMembership ==
    call # "none" =>
        /\ call = "has_edge"
        /\ ret = IF RowHolds(graph, args[1], args[2]) THEN 1 ELSE 0

\* the search found the last element of a full row that follows an empty row 0
C13_FoundInLastSlot ==
    /\ call = "has_edge" /\ ret = 1 /\ args[1] = 1
    /\ graph.row_index[1] = 0 /\ graph.row_index[2] = SearchLen
    /\ graph.col_index[SearchLen - 1] = args[2]
    /\ graph.col_index[SearchLen - 2] # args[2]

(***************************************************************************)
(* FLAGS                                                                   *)
(***************************************************************************)
\* C14: at most one of the bits Z, N, P of FLAGS is set in every state
C14_AtMostOneFlag ==
    FLAGS \in {0, FLAG_ZERO, FLAG_NEG, FLAG_POS}

\* C15: right after an integer CMP (flags 00 or 01) exactly one of Z, N, P is
\* set, whatever the two 32-bit operands
C15_IntCmpSetsOneFlag ==
    [][Executed(CMP) /\ flags' \in {0, FLAG_I} =>
         FLAGS' \in {FLAG_ZERO, FLAG_NEG, FLAG_POS}]_vars

\* a CMP of INT32_MIN with INT32_MAX, whose difference does not fit, set P
C15_ComparedAcrossOverflow ==
    /\ ISA = CMP /\ flags = 0 /\ clock = 3
    /\ R[R_TMP1] = INT32_MIN /\ R[R_ACC] = INT32_MAX
    /\ FLAGS = FLAG_POS

\* the flag for a compared with b
OrderFlag(a, b) == IF a = b THEN FLAG_ZERO ELSE IF a < b THEN FLAG_NEG ELSE FLAG_POS

\* C16: an integer CMP sets FLAGS from R[arg2] minus its third operand, which
\* is R[arg3] in the register form (flags 00) and the immediate in the
\* immediate form (flags 01)
C16_CmpOperands ==
    [][Executed(CMP) /\ flags' \in {0, FLAG_I} =>
         FLAGS' = OrderFlag(R[A1'], IF flags' = FLAG_I THEN A2' ELSE R[A2'])]_vars

(***************************************************************************)
(* MOVC                                                                    *)
(***************************************************************************)
\* C17: MOVC in its integer form (flags 00) writes F[arg1] with R[arg2] as a
\* float and leaves the integer registers; in its float form (flags 10) it
\* writes R[arg1] with F[arg2] as an integer and leaves the float registers
C17_MovcDestinationFile ==
    [][Executed(MOVC) =>
         /\ flags' = 0 =>
              R' = R /\ F' = [F EXCEPT ![A0'] = IntToFloat(R[A1'])]
         /\ flags' = FLAG_F =>
              F' = F /\ \E v \in FloatToInt32(F[A1']) : R' = [R EXCEPT ![A0'] = v]]_vars

(***************************************************************************)
(* LD and ST                                                               *)
(***************************************************************************)
\* the address the instruction just decoded names: its immediate in the I-type
\* forms, R[arg2] in the R-type forms
NamedAddr ==
    IF flags' = FLAG_I THEN A2'
    ELSE IF flags' = FLAG_I + FLAG_F THEN FA'
    ELSE R[A1']

\* C20: LD and ST at an address (the immediate, or R[arg2]) that is negative or
\* at least MEMORY_SIZE return Error and leave memory and the registers as
\* they were; at an address in range ST writes that word from its register
\* and no other, and LD reads that word into its register, so that a ST of
\* R[a] and a LD into R[b] at one address give R[b] = R[a]
C20_LoadStoreAddress ==
    [][Executed(LD) \/ Executed(ST) =>
         IF NamedAddr < 0 \/ NamedAddr >= MEMORY_SIZE
         THEN result' = VM_ERROR /\ memory' = memory /\ regs' = regs
         ELSE /\ result' = VM_CONTINUE
              /\ ISA' = ST =>
                   /\ regs' = regs
                   /\ memory' = ArrSet(memory, NamedAddr,
                                       IF flags' \in {0, FLAG_I} THEN R[A0'] ELSE F[A0'])
              /\ ISA' = LD =>
                   /\ memory' = memory
                   /\ IF flags' \in {0, FLAG_I}
                      THEN R' = [R EXCEPT ![A0'] = ArrGet(memory, NamedAddr)] /\ F' = F
                      ELSE F' = [F EXCEPT ![A0'] = ArrGet(memory, NamedAddr)] /\ R' = R]_vars

(***************************************************************************)
(* VLD and VST                                                             *)
(***************************************************************************)
\* C19: VLD and VST, immediate-addressed and register-addressed, succeed
\* exactly when 0 <= base and base + 4 <= MEMORY_SIZE, moving the four words
\* from base on (base 65532 moves words 65532..65535); for every other base
\* they return Error and leave memory and the vector registers as they were
C19_VectorBase ==
    [][/\ pc = "run" /\ (pc' = "trap" \/ clock' = clock + 1)
       /\ ISA' \in {VLD, VST}
       => IF 0 <= NamedAddr /\ NamedAddr <= MEMORY_SIZE - LANE_SIZE
          THEN /\ pc' = "run" /\ result' = VM_CONTINUE
               /\ ISA' = VLD =>
                    /\ memory' = memory
                    /\ IF flags' \in {0, FLAG_I}
                       THEN VR' = [VR EXCEPT ![A0'] = LoadLanes(memory, NamedAddr)] /\ VF' = VF
                       ELSE VF' = [VF EXCEPT ![A0'] = LoadLanes(memory, NamedAddr)] /\ VR' = VR
               /\ ISA' = VST =>
                    /\ VR' = VR /\ VF' = VF
                    /\ memory' = StoreLanes(memory, NamedAddr,
                                            IF flags' \in {0, FLAG_I} THEN VR[A0'] ELSE VF[A0'],
                                            LANE_SIZE)
          ELSE /\ pc' = "done" /\ result' = VM_ERROR
               /\ memory' = memory /\ VR' = VR /\ VF' = VF]_vars

(***************************************************************************)
(* Error returns                                                           *)
(***************************************************************************)
\* C21: when execute returns Error (a branch target, an iterator slot or a
\* memory address out of range), the register files, memory, FLAGS, niter,
\* eiter and both frontiers (contents and references) are as they were before
\* the instruction was fetched
C21_ErrorLeavesState ==
    [][pc = "run" /\ clock' = clock + 1 /\ result' = VM_ERROR
       => /\ R' = R /\ F' = F /\ VR' = VR /\ VF' = VF
          /\ memory' = memory /\ FLAGS' = FLAGS
          /\ niter' = niter /\ eiter' = eiter
          /\ fobj' = fobj /\ frontier' = frontier /\ next_frontier' = next_frontier]_vars

\* an NNEXT with slot 4 returned Error with a flag set, a register written
\* and a node waiting in next_frontier
C21_FaultedWithState ==
    /\ pc = "done" /\ result = VM_ERROR /\ ISA = NNEXT /\ A2 = 4
    /\ FLAGS = FLAG_POS /\ R[R_TMP1] = 7
    /\ QContents(fobj[next_frontier].queue) = <<7>>

(***************************************************************************)
(* run                                                                     *)
(***************************************************************************)
\* C22: when run has returned and an exit hook is registered, the hook was
\* called exactly once, with the status run returned, however the run ended
C22_ExitHookCalledOnce ==
    pc = "done" /\ exit_hook => exit_calls = <<result>>

\* the word this pass of the loop fetched was passed to execute: it is not the
\* halt word, and its opcode and flags bytes are defined
PassedToExecute ==
    ~IsZeroWord(data') /\ data'.op \in Opcodes /\ data'.fl \in 0..3

\* C23: clock never decreases; a pass of run's loop adds exactly 1 to it when
\* it passes an instruction to execute, one that returns Error included, and
\* calls the debug hook (when registered) exactly once then, before the
\* increment; no other pass changes clock or calls the hook; a JMP out of
\* range as first instruction ends the run with Error and clock = 1
C23_ClockCountsExecuted ==
    [][pc = "run" =>
         /\ clock' >= clock
         /\ IF PassedToExecute
            THEN /\ clock' = clock + 1
                 /\ debug_calls' = IF debug_hook THEN Append(debug_calls, clock)
                                   ELSE debug_calls
            ELSE clock' = clock /\ debug_calls' = debug_calls
         /\ clock = 0 /\ data'.op = JMP /\ data'.fl = FLAG_I
              /\ (data'.lo < 0 \/ data'.lo >= PROGRAM_SIZE)
            => pc' = "done" /\ result' = VM_ERROR /\ clock' = 1]_vars

\* the run of a JMP out of range ended with Error, the debug hook called once
\* at clock 0 and clock = 1
C23_FaultCounted ==
    /\ pc = "done" /\ result = VM_ERROR /\ data = IWord(JMP, FLAG_I, 0, 0, PROGRAM_SIZE)
    /\ debug_calls = <<0>> /\ clock = 1

\* C24: a word whose opcode byte is none of the 38 opcodes, or whose flags
\* byte is none of 0..3, makes run return Error without executing it:
\* registers, memory, FLAGS, cursors, frontiers and clock stay as they were
C24_RejectedWordNotExecuted ==
    [][pc = "run" /\ (data'.op \notin Opcodes \/ data'.fl \notin 0..3)
       => /\ pc' = "done" /\ result' = VM_ERROR
          /\ regs' = regs /\ memory' = memory /\ FLAGS' = FLAGS
          /\ cursors' = cursors /\ fronts' = fronts
          /\ clock' = clock]_vars

\* run returned Error on a word with a reserved flags byte, after two
\* instructions that left a register and a flag set
C24_RejectedAfterTwo ==
    /\ pc = "done" /\ result = VM_ERROR
    /\ data = IWord(MOV, 4, R_TMP1, 0, 7)
    /\ clock = 2 /\ R[R_TMP1] = 7 /\ FLAGS = FLAG_POS

\* C25: PARALLEL, BARRIER, LOCK and UNLOCK return Continue and change nothing
\* observable: the register files, memory, FLAGS, niter, eiter and both
\* frontiers stay, PC advances by one and clock grows by one
C25_SyncIsNoOp ==
    [][pc = "run" /\ data'.op \in {PARALLEL, BARRIER, LOCK, UNLOCK} /\ data'.fl \in 0..3
       => /\ pc' = "run" /\ result' = VM_CONTINUE
          /\ PC' = PC + 1 /\ clock' = clock + 1
          /\ regs' = regs /\ memory' = memory /\ FLAGS' = FLAGS
          /\ cursors' = cursors /\ fronts' = fronts]_vars

\* a LOCK was executed as third instruction, with a register and a flag set
C25_LockedWithState ==
    /\ pc = "run" /\ data.op = LOCK /\ clock = 3 /\ PC = 3
    /\ R[R_TMP1] = 7 /\ FLAGS = FLAG_POS

(***************************************************************************)
(* The two frontiers                                                       *)
(***************************************************************************)
\* C26: FPUSH changes only the queue next_frontier refers to, adding its value
\* at the end, and FPOP changes only the queue frontier refers to, returning
\* its oldest entry: until an FSWAP no pushed value is popped; FSWAP makes the
\* queue pushed to the one popped from, entries in push order
C26_PushAndPopSides ==
    /\ [](frontier # next_frontier)
    /\ [][/\ Executed(FPUSH) =>
               /\ frontier' = frontier /\ next_frontier' = next_frontier
               /\ CurQ' = CurQ /\ regs' = regs
               /\ \/ QContents(NextQ') = Append(QContents(NextQ), R[A0'])
                  \/ NextQ' = NextQ
          /\ Executed(FPOP) =>
               /\ frontier' = frontier /\ next_frontier' = next_frontier
               /\ NextQ' = NextQ
               /\ IF QSize(CurQ) = 0 THEN CurQ' = CurQ /\ regs' = regs
                  ELSE /\ R' = [R EXCEPT ![A0'] = QContents(CurQ)[1]]
                       /\ QContents(CurQ') = Tail(QContents(CurQ))
          /\ Executed(FSWAP) =>
               /\ fobj' = fobj
               /\ QContents(CurQ') = QContents(NextQ)]_vars

\* 0 and 5 were pushed, in this order, the frontiers swapped, and one FPOP
\* returned 0 and left 5
C26_PoppedAfterSwap ==
    /\ data.op = FPOP /\ clock = 5
    /\ frontier = 1 /\ next_frontier = 0
    /\ CurQ.back = 1 /\ QContents(CurQ) = <<5>>
    /\ R[R_ACC] = 0 /\ QSize(NextQ) = 0

(***************************************************************************)
(* Breadth-first search                                                    *)
(***************************************************************************)
\* the nodes that have an edge from u
Successors(g, u) ==
    {g.col_index[i] : i \in g.row_index[u]..(g.row_index[u + 1] - 1)}

\* the length of a shortest path from a node of cur to v, cur being the nodes
\* at distance d from the source and seen those at distance d or less; -1 when
\* there is no path
RECURSIVE DistanceFrom(_, _, _, _, _)
DistanceFrom(g, seen, cur, d, v) ==
    IF v \in cur THEN d
    ELSE IF cur = {} THEN -1
    ELSE LET next == UNION {Successors(g, u) : u \in cur} \ seen
         IN  DistanceFrom(g, seen \cup next, next, d + 1, v)
Distance(g, v) == DistanceFrom(g, {0}, {0}, 0, v)

\* the nodes popped from a queue since it was initialised, oldest first
PoppedFrom(queue) == [i \in 1..queue.back |-> ArrGet(queue.data, i - 1)]
Popped == PoppedFrom(fobj[0].queue) \o PoppedFrom(fobj[1].queue)

\* C27: the level-synchronous search pops each node in the round whose number
\* is its distance from the source, so all nodes at depth d before any node
\* at depth d + 1; when it ends, each node that can be reached has been popped
\* exactly once and no other node has been popped
C27_BfsLevelOrder ==
    /\ [](pc # "trap")
    /\ [](pc = "done" =>
            /\ result = VM_HALT
            /\ QSize(CurQ) = 0 /\ QSize(NextQ) = 0
            /\ \A v \in 0..(graph.n - 1) :
                 Cardinality({i \in DOMAIN Popped : Popped[i] = v})
                   = IF Distance(graph, v) >= 0 THEN 1 ELSE 0)
    /\ [][Executed(FPOP) =>
            /\ QSize(CurQ) > 0
            /\ R'[R_NODE] = QContents(CurQ)[1]
            /\ Distance(graph, R'[R_NODE]) = R[R_TMP2]
            /\ frontier = (R[R_TMP2] + 1) % 2]_vars

\* the search ended on the path 0 -> 1 -> 2, having popped 0, 1 and 2 in three
\* rounds
C27_SearchedThreeLevels ==
    /\ pc = "done"
    /\ Distance(graph, 1) = 1 /\ Distance(graph, 2) = 2
    /\ PoppedFrom(fobj[1].queue) = <<0, 2>> /\ PoppedFrom(fobj[0].queue) = <<1>>
    /\ R[R_TMP2] = 3

(***************************************************************************)
(* graphX_reset, called by the host once or several times in a row after   *)
(* any prefix of programs that dirty every part of the VM: MOV (integer    *)
(* and float immediates), CMP, ST, VSET, NNEXT, FPUSH, FSWAP.              *)
(***************************************************************************)
ResetSteps == 3
ResetCalls == 2

\* a reset that counts itself on the clock instead of clearing it
graphX_reset_counts_clock ==
    /\ pc \in {"run", "done"}
    /\ PC' = 0 /\ FLAGS' = 0 /\ ISA' = HALT
    /\ A0' = 0 /\ A1' = 0 /\ A2' = 0
    /\ R' = [i \in 0..(R_COUNT - 1) |-> 0]
    /\ F' = [i \in 0..(F_COUNT - 1) |-> 0]
    /\ VR' = [i \in 0..(VR_COUNT - 1) |-> [l \in 0..(LANE_SIZE - 1) |-> 0]]
    /\ VF' = [i \in 0..(VF_COUNT - 1) |-> [l \in 0..(LANE_SIZE - 1) |-> 0]]
    /\ niter' = [i \in 0..3 |-> 0]
    /\ eiter' = 0
    /\ memory' = ZeroArr
    /\ fobj' = [o \in DOMAIN fobj |->
                  IF o \in {frontier, next_frontier}
                  THEN frontier_init(fobj[o], FRONTIER_QUEUE).frontier
                  ELSE fobj[o]]
    /\ clock' = clock + 1
    /\ UNCHANGED <<FA, data, flags, graph, frontier, next_frontier, hooks,
                   debug_calls, exit_calls, result, pc>>

\* graphX_reset: every assignment of lines 595-621; FA, the graph, the hooks
\* and the two frontier references are not assigned
graphX_reset ==
    /\ pc \in {"run", "done"}
    /\ PC' = 0 /\ FLAGS' = 0 /\ ISA' = HALT
    /\ A0' = 0 /\ A1' = 0 /\ A2' = 0
    /\ R' = [i \in 0..(R_COUNT - 1) |-> 0]
    /\ F' = [i \in 0..(F_COUNT - 1) |-> 0]
    /\ VR' = [i \in 0..(VR_COUNT - 1) |-> [l \in 0..(LANE_SIZE - 1) |-> 0]]
    /\ VF' = [i \in 0..(VF_COUNT - 1) |-> [l \in 0..(LANE_SIZE - 1) |-> 0]]
    /\ niter' = [i \in 0..3 |-> 0]
    /\ eiter' = 0
    /\ memory' = ZeroArr
    /\ fobj' = [o \in DOMAIN fobj |->
                  IF o \in {frontier, next_frontier}
                  THEN frontier_init(fobj[o], FRONTIER_QUEUE).frontier
                  ELSE fobj[o]]
    /\ clock' = 0
    /\ UNCHANGED <<FA, data, flags, graph, frontier, next_frontier, hooks,
                   debug_calls, exit_calls, result, pc>>

\* the host calls graphX_reset
CallReset ==
    /\ ncalls < ResetCalls
    /\ graphX_reset
    /\ call' = "reset" /\ ncalls' = ncalls + 1
    /\ UNCHANGED <<ret, node, fifo, args>>

ResetMOV ==
    /\ ncalls = 0 /\ clock < ResetSteps
    /\ \/ DoMOV(IWord(MOV, FLAG_I, R_TMP1, 0, 7))
       \/ DoMOV(IWord(MOV, FLAG_I + FLAG_F, 1, 0, F_2_5))
ResetCMP ==
    /\ ncalls = 0 /\ clock < ResetSteps
    /\ DoCMP(RWord(CMP, 0, R_TMP1, R_ACC, R_VAL))
ResetST ==
    /\ ncalls = 0 /\ clock < ResetSteps
    /\ DoST(IWord(ST, FLAG_I, R_TMP1, 0, 5))
ResetVSET ==
    /\ ncalls = 0 /\ clock < ResetSteps
    /\ \/ DoVSET(IWord(VSET, FLAG_I, 1, 0, 9))
       \/ DoVSET(IWord(VSET, FLAG_I + FLAG_F, 1, 0, F_2_5))
ResetNNEXT ==
    /\ ncalls = 0 /\ clock < ResetSteps
    /\ DoNNEXT(IWord(NNEXT, FLAG_I, 0, 0, 1))
ResetFPUSH ==
    /\ ncalls = 0 /\ clock < ResetSteps
    /\ DoFPUSH(RWord(FPUSH, 0, R_TMP1, 0, 0))
ResetFSWAP ==
    /\ ncalls = 0 /\ clock < ResetSteps
    /\ DoFSWAP(RWord(FSWAP, 0, 0, 0, 0))

NextReset ==
    \/ ResetMOV \/ ResetCMP \/ ResetST \/ ResetVSET \/ ResetNNEXT \/ ResetFPUSH
    \/ ResetFSWAP \/ CallReset

InitReset == \E dh \in BOOLEAN : InitHooked(GraphA, dh, TRUE)
SpecReset == InitReset /\ [][NextReset]_vars

\* a step in which the host's graphX_reset returns
ResetReturns == call' = "reset" /\ ncalls' = ncalls + 1

\* C28: graphX_reset, called in any reachable state, leaves PC, FLAGS, the
\* three integer argument slots and the float argument slot, every integer,
\* float and vector register, every memory word, niter[0..3], eiter and clock
\* at zero and both frontiers empty FIFO queues, and does not change the graph.
C28_ResetZeroesEverything ==
    [][ResetReturns =>
         /\ PC' = 0 /\ FLAGS' = 0
         /\ A0' = 0 /\ A1' = 0 /\ A2' = 0 /\ FA' = 0
         /\ \A i \in DOMAIN R' : R'[i] = 0
         /\ \A i \in DOMAIN F' : F'[i] = 0
         /\ \A i \in DOMAIN VR' : \A l \in DOMAIN VR'[i] : VR'[i][l] = 0
         /\ \A i \in DOMAIN VF' : \A l \in DOMAIN VF'[i] : VF'[i][l] = 0
         /\ memory' = ZeroArr
         /\ \A i \in 0..3 : niter'[i] = 0
         /\ eiter' = 0 /\ clock' = 0
         /\ \A o \in {frontier', next_frontier'} :
              /\ fobj'[o].type = FRONTIER_QUEUE
              /\ QSize(fobj'[o].queue) = 0
         /\ graph' = graph]_vars

\* C29: graphX_reset is idempotent: a reset that directly follows a reset
\* changes no field of the VM, the hook pointers and which frontier object
\* each of frontier / next_frontier references included.
C29_ResetIdempotent ==
    [][call = "reset" /\ ResetReturns =>
         /\ PC' = PC /\ FLAGS' = FLAGS /\ ISA' = ISA
         /\ A0' = A0 /\ A1' = A1 /\ A2' = A2 /\ FA' = FA
         /\ regs' = regs /\ memory' = memory /\ cursors' = cursors
         /\ clock' = clock
         /\ graph' = graph
         /\ fobj' = fobj /\ frontier' = frontier /\ next_frontier' = next_frontier
         /\ hooks' = hooks]_vars

\* two resets in a row after a swap and a float immediate
C29_ResetTwice ==
    /\ call = "reset" /\ ncalls = ResetCalls
    /\ data = IWord(MOV, FLAG_I + FLAG_F, 1, 0, F_2_5)
    /\ FA = F_2_5 /\ frontier = 1 /\ next_frontier = 0
    /\ debug_hook /\ debug_calls = <<0, 1, 2>>
    /\ clock = 0 /\ QSize(CurQ) = 0

(***************************************************************************)
(* Vector reduction: programs of MOV into an accumulator, VSET and VSUM    *)
(***************************************************************************)
SumSteps == 4

\* accumulators and lane values at and around the ends of int32_t
SumInts == {5, -1, INT32_MAX, INT32_MIN}

SumMOV ==
    /\ clock < SumSteps
    /\ \/ \E v \in SumInts : DoMOV(IWord(MOV, FLAG_I, R_ACC, 0, v))
       \/ DoMOV(IWord(MOV, FLAG_I + FLAG_F, F_ACC, 0, F_2_5))
SumVSET ==
    /\ clock < SumSteps
    /\ \/ \E v \in SumInts : DoVSET(IWord(VSET, FLAG_I, 1, 0, v))
       \/ DoVSET(RWord(VSET, 0, 1, R_ACC, 0))
       \/ DoVSET(IWord(VSET, FLAG_I + FLAG_F, 1, 0, F_1_0))
SumVSUM ==
    /\ clock < SumSteps
    /\ \/ \E a \in {R_ACC, R_TMP1}, fl \in {0, FLAG_I} : DoVSUM(IWord(VSUM, fl, a, 1, 0))
       \/ DoVSUM(RWord(VSUM, FLAG_F, F_ACC, 1, 0))

NextSum == SumMOV \/ SumVSET \/ SumVSUM

InitSum == InitVM(GraphA)
SpecSum == InitSum /\ [][NextSum]_vars

\* the int32_t congruent to a + b modulo 2^32: a + b, less 2^32 when it is
\* above INT32_MAX, plus 2^32 when it is below INT32_MIN
PlusMod32(a, b) ==
    IF a > 0 /\ b > 0 /\ a > INT32_MAX - b THEN (a + INT32_MIN) + (b + INT32_MIN)
    ELSE IF a < 0 /\ b < 0 /\ a < INT32_MIN - b THEN (a - INT32_MIN) + (b - INT32_MIN)
    ELSE a + b

\* C30: integer VSUM adds to its destination: afterwards R[arg1] is its
\* previous value plus the sum of the four lanes of VR[arg2], modulo 2^32,
\* and VR[arg2] is unchanged.
C30_VsumAccumulates ==
    [][Executed(VSUM) /\ data'.fl \in {0, FLAG_I} =>
         /\ R'[data'.a1] =
              PlusMod32(PlusMod32(PlusMod32(PlusMod32(R[data'.a1],
                  VR[data'.a2][0]), VR[data'.a2][1]), VR[data'.a2][2]), VR[data'.a2][3])
         /\ VR'[data'.a2] = VR[data'.a2]]_vars

\* two VSUMs chained into an accumulator across the end of int32_t:
\* INT32_MAX + 8 * INT32_MAX wraps to INT32_MAX - 8
C30_ChainedAcrossOverflow ==
    /\ data = IWord(VSUM, 0, R_ACC, 1, 0)
    /\ clock = 4
    /\ VR[1] = [l \in 0..(LANE_SIZE - 1) |-> INT32_MAX]
    /\ R[R_ACC] = INT32_MAX - 8

(***************************************************************************)
(* Edge sweeps over graphs with empty rows: programs of EITER and ENEXT    *)
(***************************************************************************)
\* three nodes, row 1 empty: edges 0->1, 2->0
GraphD == Graph(<<0, 1, 1, 2>>, <<1, 0>>, <<F_1_0, F_2_0>>)
\* two nodes, the last row empty: edge 0->1
GraphE == Graph(<<0, 1, 1>>, <<1>>, <<F_7_0>>)

NextRows == IterEITER \/ IterENEXT

InitRows == \E g \in {GraphA, GraphD, GraphE} : InitVM(g)
SpecRows == InitRows /\ [][NextRows]_vars

\* C31: on any CSR graph, rows of degree 0 included, an ENEXT that returns
\* with FLAGS.Z clear has delivered a real edge of the row it reports: R_NBR
\* and R_VAL are the destination and weight at an index j inside the row of
\* R_NODE (so that row is not empty), and j was not delivered before in
\* this sweep: it is not below where the sweep stood.
C31_EnextDeliversRealEdge ==
    [][Executed(ENEXT) /\ BitAnd(FLAGS', FLAG_ZERO) = 0 =>
         /\ R'[R_NODE] \in 0..(graph.n - 1)
         /\ \E j \in graph.row_index[R'[R_NODE]]..(graph.row_index[R'[R_NODE] + 1] - 1) :
              /\ j = graph.row_index[R'[R_NODE]] + eiter' - 1
              /\ R'[R_NBR] = graph.col_index[j]
              /\ WeightIs(graph.values[j], R'[R_VAL])
              /\ j >= SweepPos]_vars

(***************************************************************************)
(* Register fields: programs of MOV and of arithmetic words whose 8-bit    *)
(* register fields name registers inside and past the end of the files     *)
(***************************************************************************)
RegsSteps == 3

\* register fields: a register of the file, one past its end, the last byte
RegsIntFields == {R_TMP1, R_COUNT, 255}
RegsFloatFields == {F_TMP1, F_COUNT}

RegsMOV ==
    /\ clock < RegsSteps
    /\ \/ DoMOV(IWord(MOV, FLAG_I, R_TMP1, 0, 6))
       \/ DoMOV(IWord(MOV, FLAG_I + FLAG_F, F_TMP1, 0, F_2_5))
RegsADD ==
    /\ clock < RegsSteps
    /\ \/ \E a \in RegsIntFields, b \in RegsIntFields : DoADD(IWord(ADD, FLAG_I, a, b, 1))
       \/ \E c \in RegsIntFields : DoADD(RWord(ADD, 0, R_ACC, R_TMP1, c))
       \/ \E a \in RegsFloatFields : DoADD(IWord(ADD, FLAG_I + FLAG_F, a, F_TMP1, F_1_0))
RegsSUB ==
    /\ clock < RegsSteps
    /\ \E a \in RegsIntFields : DoSUB(IWord(SUB, FLAG_I, a, R_TMP1, 1))
RegsMUL ==
    /\ clock < RegsSteps
    /\ \E b \in RegsIntFields : DoMUL(IWord(MUL, FLAG_I, R_ACC, b, 2))
RegsDIV ==
    /\ clock < RegsSteps
    /\ \E c \in RegsFloatFields : DoDIV(RWord(DIV, FLAG_F, F_ACC, F_TMP1, c))

NextRegs == RegsMOV \/ RegsADD \/ RegsSUB \/ RegsMUL \/ RegsDIV

InitRegs == InitVM(GraphA)
SpecRegs == InitRegs /\ [][NextRegs]_vars

\* the register fields of word w that its form uses all name registers of
\* the file the form works on
FieldsNameRegisters(w) ==
    LET count == IF w.fl \in {FLAG_F, FLAG_I + FLAG_F} THEN F_COUNT ELSE R_COUNT
    IN  /\ w.a1 < count /\ w.a2 < count
        /\ w.fl \in {0, FLAG_F} => Byte(w.lo, 3) < count

\* C32: an arithmetic word that decode accepts never makes execute access
\* anything outside the register file it works on, also when one of its 8-bit
\* register fields names a register that does not exist: the step does not
\* fault, and only a register of that file can change.
C32_RegisterAccessInBounds ==
    [][/\ pc = "run"
       /\ data'.op \in {ADD, SUB, MUL, DIV} /\ data'.fl \in 0..3
       /\ ~FieldsNameRegisters(data')
       => /\ pc' # "trap"
          /\ IF data'.fl \in {FLAG_F, FLAG_I + FLAG_F} THEN R' = R ELSE F' = F
          /\ VR' = VR /\ VF' = VF /\ memory' = memory
          /\ \A i \in DOMAIN R : i # data'.a1 => R'[i] = R[i]
          /\ \A i \in DOMAIN F : i # data'.a1 => F'[i] = F[i]]_vars

(***************************************************************************)
(* Straight-line programs: every program of LOCK and MOV words, ended by a *)
(* HALT instruction, a zero word, a word decode rejects, an NITER of a     *)
(* slot that does not exist, or by nothing at all.  No bound on the length *)
(* of the run is imposed: the program array has PROGRAM_SIZE words.        *)
(***************************************************************************)
LineLOCK == DoSync(IWord(LOCK, FLAG_I, 0, 0, 0))
LineMOV == DoMOV(IWord(MOV, FLAG_I, R_TMP1, 0, 7))
LineNITER == DoNITER(IWord(NITER, FLAG_I, 0, 0, 4))
LineHALT == DoHALT(IWord(HALT, FLAG_I, 0, 0, 0))
LineDecodeFail == DecodeFail(IWord(MOV, 4, R_TMP1, 0, 7))
LineFetchHalt == FetchHalt(HaltWord)

NextLine ==
    LineLOCK \/ LineMOV \/ LineNITER \/ LineHALT \/ LineDecodeFail \/ LineFetchHalt

InitLine == InitVM(GraphA)
SpecLine == InitLine /\ [][NextLine]_vars
\* run is a loop of one thread: it takes its next step whenever it has one
SpecLineFair == SpecLine /\ WF_vars(NextLine)

\* C33: a run of a program without JMP, BZ, BNZ, BLT, BGE terminates.  Each
\* fetch of a word moves PC on by exactly one (after an Error the exit hook
\* of main.c has stepped it back onto the instruction), neither PC nor the
\* count of executed words passes PROGRAM_SIZE, a fetch at PC = PROGRAM_SIZE returns the halt word without
\* moving PC and run returns Halt, and every run returns Halt or Error.
C33_StraightLineTerminates ==
    /\ [](PC <= PROGRAM_SIZE /\ clock <= PROGRAM_SIZE)
    /\ [][pc = "run" =>
            IF PC >= PROGRAM_SIZE
            THEN /\ data' = HaltWord /\ PC' = PC
                 /\ pc' = "done" /\ result' = VM_HALT
            ELSE \/ PC' = PC + 1
                 \/ /\ exit_hook /\ pc' = "done" /\ result' = VM_ERROR
                    /\ clock' = clock + 1 /\ PC' = PC]_vars
    /\ <>(pc = "done" /\ result \in {VM_HALT, VM_ERROR})

\* the run went through the whole program array and ended on the fetch at
\* PC = PROGRAM_SIZE
C33_RanOffTheEnd ==
    /\ pc = "done" /\ result = VM_HALT
    /\ PC = PROGRAM_SIZE /\ clock = PROGRAM_SIZE
    /\ data = HaltWord /\ R[R_TMP1] = 7
    /\ exit_calls = <<VM_HALT>>

(***************************************************************************)
(* Ordering: programs of MOV into R_TMP1 and R_ACC, integer CMP, BLT, BGE  *)
(***************************************************************************)
OrderSteps == 4

OrderMOV ==
    /\ clock < OrderSteps
    /\ \E r \in {R_TMP1, R_ACC}, v \in CmpOperands : DoMOV(IWord(MOV, FLAG_I, r, 0, v))
OrderCMP ==
    /\ clock < OrderSteps
    /\ \/ DoCMP(RWord(CMP, 0, R_TMP1, R_ACC, R_VAL))
       \/ DoCMP(IWord(CMP, FLAG_I, R_TMP1, R_ACC, 1))
OrderBLT ==
    /\ clock < OrderSteps
    /\ DoBLT(IWord(BLT, FLAG_I, 0, 0, 100))
OrderBGE ==
    /\ clock < OrderSteps
    /\ DoBGE(IWord(BGE, FLAG_I, 0, 0, 100))

NextOrder == OrderMOV \/ OrderCMP \/ OrderBLT \/ OrderBGE

InitOrder == InitVM(GraphA)
SpecOrder == InitOrder /\ [][NextOrder]_vars

\* C34: an integer CMP of a with b, the two registers it compares, sets Z iff
\* a = b, N iff a < b and P iff a > b as integers, also when a - b does not
\* fit in 32 bits; and a BLT that follows the CMP is taken iff a < b.
C34_CmpOrdersAllPairs ==
    [][/\ (Executed(CMP) /\ flags' \in {0, FLAG_I} =>
             FLAGS' = OrderFlag(R[A0'], R[A1']))
       /\ (Executed(BLT) /\ ISA = CMP /\ flags \in {0, FLAG_I} =>
             (PC' = data'.lo <=> R[A0] < R[A1]))]_vars

\* C35: NITER k and NNEXT k with k in 0..3 change no iteration cursor other
\* than niter[k]; with a slot operand outside 0..3 they end the run with Error
\* and change no cursor.
C35_OnlyTheNamedCursor ==
    [][Executed(NITER) \/ Executed(NNEXT) =>
         IF A2' \in 0..3
         THEN /\ \A j \in 0..3 : j # A2' => niter'[j] = niter[j]
              /\ eiter' = eiter
         ELSE /\ pc' = "done" /\ result' = VM_ERROR
              /\ niter' = niter /\ eiter' = eiter]_vars

\* six instructions: NNEXT 0 twice, NNEXT 3 and an ENEXT among the first
\* five, then an NNEXT of slot 4, which does not exist
C35_CursorsKept ==
    /\ pc = "done" /\ result = VM_ERROR
    /\ ISA = NNEXT /\ A2 = 4
    /\ niter = [i \in 0..3 |-> IF i = 0 THEN 2 ELSE IF i = 3 THEN 1 ELSE 0]
    /\ eiter = 1
    /\ clock = 6

(***************************************************************************)
(* A caller that initialises the frontier fobj[0] as each backend type,    *)
(* between pushes and pops                                                 *)
(***************************************************************************)
InitCalls == 4

BackendTypes ==
    {FRONTIER_QUEUE, FRONTIER_PRIORITY_QUEUE, FRONTIER_BUCKET_QUEUE, FRONTIER_SET}

CallInitAs(t) ==
    /\ LET r == frontier_init(fobj[0], t)
       IN  /\ fobj' = [fobj EXCEPT ![0] = r.frontier]
           /\ ret' = r.ret
           /\ fifo' = IF r.ret = 0 THEN <<>> ELSE fifo
    /\ call' = "init" /\ ncalls' = ncalls + 1
    /\ args' = <<t>>
    /\ UNCHANGED <<vmState, node>>

BackendInit == ncalls < InitCalls /\ \E t \in BackendTypes : CallInitAs(t)
BackendPush == ncalls < InitCalls /\ PushNode
BackendPop == ncalls < InitCalls /\ CallPop

NextBackend == BackendInit \/ BackendPush \/ BackendPop

SpecBackend == InitQueue /\ [][NextBackend]_vars

\* C36: frontier_init with a backend type other than FIFO returns failure and
\* leaves the frontier as it was (type tag, cursors, data), so that the next
\* push to it, if it has room, and the next pop from it, if it holds a value,
\* succeed as before.
C36_FailedInitLeavesFrontier ==
    [][/\ (call' = "init" /\ ncalls' = ncalls + 1 /\ args'[1] # FRONTIER_QUEUE =>
             ret' = -1 /\ fobj'[0] = fobj[0])
       /\ (call = "init" /\ ret = -1 /\ ncalls' = ncalls + 1 =>
             /\ (call' = "push" /\ Len(fifo) < MAX_QUEUE_SIZE => ret' = 0)
             /\ (call' = "pop" /\ Len(fifo) > 0 => ret' = 0 /\ node' = Head(fifo)))]_vars

====
